---- MODULE Spec2Model ----
(***************************************************************************)
(* Model of the two-tier caching layer of portfolio-admin:                 *)
(*   - the read cache (contentfulCache: fetchWithCache,                    *)
(*     fetchSingleWithCache, clearContentfulCache, clearAllContentfulCache)*)
(*   - the management cache (contentfulManagementCache.ts:                 *)
(*     fetchWithMgmtCache, optimisticUpdate, clearMgmtCache,               *)
(*     clearAllMgmtCache, invalidateMgmtCache),                            *)
(* and of the admin session: App's start-up check, LoginScreen's password  *)
(* and TOTP steps, AdminPanel's mount check, storage listener and logout,  *)
(* over several browser tabs that share one localStorage.  The functions   *)
(* of lib/adminAuth and lib/totp follow their description in the           *)
(* specification.  Further: the read operations of contentful.ts over the  *)
(* read cache, and the content handlers of AdminPanel (fetchEntries,       *)
(* handleAdd, handleUpdate, handleDelete, handleImageUpload), for which    *)
(* the calls of lib/contentfulManagement are the environment.              *)
(*                                                                         *)
(* Strings are sequences of tokens, so that key construction is the        *)
(* concatenation the code performs.  Time is counted in minutes.  An async *)
(* function is two steps: the synchronous part up to `await fetcher()`,    *)
(* and the continuation that runs when the fetcher settles; other handlers *)
(* and the clock may run in between.                                       *)
(***************************************************************************)
EXTENDS Integers, Sequences, FiniteSets, Bags, TLC

VARIABLES
  ls,        \* localStorage: a function from the keys present to their values
  now,       \* Date.now(), in minutes
  inflight,  \* the bag of calls awaiting their fetcher or updater
  last,      \* the most recent program event: what was called, what it returned
  env,       \* import.meta.env: the build's configuration
  tabs,      \* per browser tab: the state of App and of the screen it shows
  storageEvents,  \* storage events dispatched to a tab and not yet delivered
  authCalls, \* the session handlers awaiting a promise
  lastAuth,  \* the most recent event of a session handler
  panel,     \* the content state of a mounted AdminPanel
  panelCalls,  \* the remote calls AdminPanel's handlers await, oldest first
  lastPanel  \* the most recent event of a content handler of AdminPanel

\* the session layer's variables
session == <<env, tabs, storageEvents, authCalls, lastAuth>>

\* AdminPanel's content variables
content == <<panel, panelCalls, lastPanel>>

vars == <<ls, now, inflight, last, env, tabs, storageEvents, authCalls, lastAuth,
          panel, panelCalls, lastPanel>>

----------------------------------------------------------------------------
(* Bounds *)

MaxTime == 2
MaxInFlight == 2
\* the session clock stops here (minutes)
MaxSessionTime == 31
\* most promises a tab awaits, and most storage events queued for a tab
MaxPending == 2

----------------------------------------------------------------------------
(* Inputs *)

\* content types and query keys handed in by callers (any string is accepted)
ContentTypes == { <<"photo">> }
QueryKeys == { <<>>, <<"1">> }
\* maxAge values handed to the read cache, in minutes
MaxAges == { 1, 2 }
\* what a fetcher or updater can resolve with
NetResults == { "r1", "r2" }
\* what getOptimisticData can return
OptimisticValues == { "o1" }
\* what a fetcher or updater can throw
Errors == { "e1", "e2" }

NULL == "null"
NoError == "none"

----------------------------------------------------------------------------
(* localStorage *)

getItem(s, k) == IF k \in DOMAIN s THEN s[k] ELSE NULL

hasItem(s, k) == k \in DOMAIN s

setItem(s, k, v) == [x \in (DOMAIN s) \cup {k} |-> IF x = k THEN v ELSE s[x]]

removeItem(s, k) == [x \in (DOMAIN s) \ {k} |-> s[x]]

RECURSIVE removeItems(_, _)
removeItems(s, ks) ==
  IF ks = {} THEN s
  ELSE LET k == CHOOSE x \in ks : TRUE
       IN removeItems(removeItem(s, k), ks \ {k})

startsWith(k, p) == Len(k) >= Len(p) /\ SubSeq(k, 1, Len(p)) = p

----------------------------------------------------------------------------
(* Read cache: keys and entries *)

CACHE_KEY_PREFIX == <<"cf_cache_">>
ETAG_KEY_PREFIX == <<"cf_etag_">>
TIMESTAMP_KEY_PREFIX == <<"cf_ts_">>

\* `${contentType}${queryKey ? '_' + queryKey : ''}`
keySuffix(contentType, queryKey) ==
  contentType \o (IF queryKey # <<>> THEN <<"_">> \o queryKey ELSE <<>>)

getCacheKey(contentType, queryKey) == CACHE_KEY_PREFIX \o keySuffix(contentType, queryKey)
getEtagKey(contentType, queryKey) == ETAG_KEY_PREFIX \o keySuffix(contentType, queryKey)
getTimestampKey(contentType, queryKey) == TIMESTAMP_KEY_PREFIX \o keySuffix(contentType, queryKey)

\* the absent entry (getCachedData returned null)
NoEntry == [present |-> FALSE, data |-> NULL, timestamp |-> 0]

\* read cache getCachedData: null unless both the data key and the timestamp
\* key are present.  Stored data is JSON text of plain data and the timestamp
\* is the decimal text of an integer; JSON.parse and parseInt give them back.
getCachedData(s, contentType, queryKey) ==
  LET cacheKey == getCacheKey(contentType, queryKey)
      timestampKey == getTimestampKey(contentType, queryKey)
  IN IF ~hasItem(s, cacheKey) \/ ~hasItem(s, timestampKey)
     THEN NoEntry
     ELSE [present |-> TRUE, data |-> s[cacheKey], timestamp |-> s[timestampKey]]

\* read cache setCachedData; every caller passes etag = null, so the etag key
\* is never written
setCachedData(s, contentType, data, queryKey, t) ==
  setItem(setItem(s, getCacheKey(contentType, queryKey), data),
          getTimestampKey(contentType, queryKey), t)

\* variant: an entry whose age equals maxAge still counts as fresh
isFreshInclusive(cached, t, maxAge) == (t - cached.timestamp) <= maxAge

\* the freshness test `age < maxAge` of fetchWithCache / fetchSingleWithCache
isFresh(cached, t, maxAge) == (t - cached.timestamp) < maxAge

----------------------------------------------------------------------------
(* Management cache: keys and entries *)

MGMT_CACHE_PREFIX == <<"cf_mgmt_">>
MGMT_CACHE_TTL == 2

mgmtGetCacheKey(contentType, queryKey) == MGMT_CACHE_PREFIX \o keySuffix(contentType, queryKey)

\* the raw entry under the key, whatever its age
mgmtEntry(s, contentType, queryKey) ==
  LET key == mgmtGetCacheKey(contentType, queryKey)
  IN IF hasItem(s, key)
     THEN [present |-> TRUE, data |-> s[key].data, timestamp |-> s[key].timestamp]
     ELSE NoEntry

\* management getCachedData: the data of an entry younger than the TTL, else null
mgmtGetCachedData(s, contentType, queryKey, t) ==
  LET entry == mgmtEntry(s, contentType, queryKey)
  IN IF ~entry.present THEN NULL
     ELSE IF (t - entry.timestamp) < MGMT_CACHE_TTL THEN entry.data
     ELSE NULL

mgmtSetCachedData(s, contentType, data, queryKey, t) ==
  setItem(s, mgmtGetCacheKey(contentType, queryKey), [data |-> data, timestamp |-> t])

----------------------------------------------------------------------------
(* Events *)

\* a call awaiting its fetcher or updater keeps its contentType and queryKey;
\* overlap records, for the calls of the management cache, that another call
\* of the same function on the same storage key was awaiting its fetcher or
\* updater when this one started (an observation, not program state; the
\* read cache's calls are not marked); outdated, another observation, records
\* that a write of the call's content type (a successful optimisticUpdate, an
\* invalidateMgmtCache) completed while the call was awaiting, so that its
\* fetcher was invoked before that write
Call(op, ct, qk, overlap) ==
  [op |-> op, ct |-> ct, qk |-> qk, overlap |-> overlap, outdated |-> FALSE]

\* What a handler did, as its caller observes it.
\* outcome: "pending" (the call awaits its fetcher), "hit", "fetched", "stale",
\*          "null", "rejected", "void"
\* maxAge, skip: the options of a call that has just started (0, FALSE otherwise)
\* data: the value returned; err: the error the call rejected with
\* resolved / thrown: what the fetcher or updater settled with
\* fetches: how many times the call has invoked its fetcher
\* overlap: the overlap mark of the call that ended
\* removed: how many keys a clearAll... call removed
\* remote: the error of the remote API call that the fetcher itself caught
\* outdated: the outdated mark of the call that ended
Event(op, ct, qk, maxAge, skip, outcome, data, err, resolved, thrown, fetches, overlap, removed, remote, outdated) ==
  [op |-> op, ct |-> ct, qk |-> qk, maxAge |-> maxAge, skip |-> skip,
   outcome |-> outcome, data |-> data, err |-> err,
   resolved |-> resolved, thrown |-> thrown, fetches |-> fetches, overlap |-> overlap,
   removed |-> removed, remote |-> remote, outdated |-> outdated]

NoEvent == Event("none", <<>>, <<>>, 0, FALSE, "void", NULL, NoError, NULL, NoError, 0, FALSE, 0, NoError, FALSE)

----------------------------------------------------------------------------
(* Session layer: configuration, tabs, events *)

\* the browser tabs of one origin; they share ls
Tabs == { 1, 2 }


\* a hex digest: what was hashed, and the case of its letters
Hex(of, case) == [of |-> of, case |-> case]

\* sha256() of LoginScreen: the lower-case hex of the SHA-256 of the message
sha256(message) == Hex(message, "lower")

toLowerCase(h) == Hex(h.of, "lower")

\* One symbol of a session string (a token, a code, a password) - c: what it
\* is ("." a dot, "digits" the decimal text of n, "text" the text x, "hmac"
\* the hex of an HMAC keyed from the hash h over the message m, "hotp6" the
\* six digits of the one-time code of secret x at time-step n)
Sym(c, n, x, h, m) == [c |-> c, n |-> n, x |-> x, h |-> h, m |-> m]

NoHex == Hex(<<>>, "lower")

Dot == Sym(".", 0, "", NoHex, <<>>)

Digits(n) == Sym("digits", n, "", NoHex, <<>>)

Text(x) == Sym("text", 0, x, NoHex, <<>>)

\* String.length
jsLength(str) ==
  LET width(y) == IF y.c = "hotp6" THEN 6 ELSE 1
      RECURSIVE sum(_)
      sum(q) == IF q = <<>> THEN 0 ELSE width(Head(q)) + sum(Tail(q))
  IN sum(str)

\* a string is truthy unless it is empty
truthy(str) == str # <<>>

\* str.split('.')
RECURSIVE split(_)
split(str) ==
  IF \A i \in 1..Len(str) : str[i] # Dot
  THEN <<str>>
  ELSE LET i == CHOOSE j \in 1..Len(str) :
                  str[j] = Dot /\ \A k \in 1..(j - 1) : str[k] # Dot
       IN <<SubSeq(str, 1, i - 1)>> \o split(SubSeq(str, i + 1, Len(str)))

\* what a user can type into the password field
Passwords == { <<Text("pw")>>, <<Text("bad")>> }

\* import.meta.env of a build: the hash of the admin password (here written
\* in upper case) and the TOTP secret, "" when none is configured
Env(secret) ==
  [VITE_ADMIN_PASSWORD_HASH |-> Hex(<<Text("pw")>>, "upper"), VITE_TOTP_SECRET |-> secret]

TotpSecrets == { "", "S1" }

\* `import.meta.env.VITE_ADMIN_PASSWORD_HASH || ''`, as LoginScreen reads it
expectedHashOf(e) == e.VITE_ADMIN_PASSWORD_HASH

\* variant: App validates against the lower-cased hash
AppExpectedHashLowered(e) == toLowerCase(e.VITE_ADMIN_PASSWORD_HASH)

\* the expectedHash of App's checkAuth
AppExpectedHash(e) == e.VITE_ADMIN_PASSWORD_HASH

\* the expectedHash of AdminPanel's checkAuth
AdminPanelExpectedHash(e) == e.VITE_ADMIN_PASSWORD_HASH

\* the component state of a tab: `open` says that the tab shows the
\* application; isChecking, isAuthenticated are App's state; showTotpInput,
\* passwordError, verifying are LoginScreen's state.  Two observations, not
\* program state: passed is the set of checks ("password", "totp") the
\* mounted LoginScreen has seen succeed, lastActivity the time of the user's
\* last action in the tab.  listeners is the number of storage listeners
\* registered on the tab's window: none when the page has just loaded
Tab(open, isChecking, isAuthenticated, showTotpInput, passwordError, verifying, passed, lastActivity) ==
  [open |-> open, isChecking |-> isChecking, isAuthenticated |-> isAuthenticated,
   showTotpInput |-> showTotpInput, passwordError |-> passwordError,
   verifying |-> verifying, passed |-> passed, lastActivity |-> lastActivity,
   listeners |-> 0]

\* a tab that does not show the application
ClosedTab == Tab(FALSE, TRUE, FALSE, FALSE, "", FALSE, {}, 0)

\* what a tab renders
LoginScreenShown(tb) == tb.open /\ ~tb.isChecking /\ ~tb.isAuthenticated

AdminPanelShown(tb) == tb.open /\ ~tb.isChecking /\ tb.isAuthenticated

\* window.addEventListener('storage', handleStorageChange)
addStorageListener(tb) == [tb EXCEPT !.listeners = @ + 1]

\* variant: the cleanup passes a function that was never registered
removeStorageListenerOther(tb) == tb

\* the effect's cleanup: window.removeEventListener('storage',
\* handleStorageChange) with the function the effect registered
removeStorageListener(tb) == [tb EXCEPT !.listeners = IF @ > 0 THEN @ - 1 ELSE 0]

\* the state of LoginScreen at its mount
freshLoginScreen(tb) ==
  [tb EXCEPT !.showTotpInput = FALSE, !.passwordError = "", !.verifying = FALSE,
             !.passed = {}]

\* a StorageEvent: its key and newValue; removed says that newValue is null
StorageEvent(key, newValue, removed) ==
  [key |-> key, newValue |-> newValue, removed |-> removed]

\* a session handler awaiting a promise: its tab, the await it is at, the
\* argument of the awaited call, and the showTotpInput and passwordError its
\* closure captured
AuthCall(tab, op, arg, showTotpInput, passwordError) ==
  [tab |-> tab, op |-> op, arg |-> arg,
   showTotpInput |-> showTotpInput, passwordError |-> passwordError]

\* What a session handler did: its tab, the handler, the token, password or
\* code it examined, the verdict ("valid", "invalid", "no token" of a
\* checkAuth; "true", "false" of the password comparison and of
\* verifyTotpCode; "none"), whether onLoginSuccess / onLogout was called, and
\* the time at which it ran
AuthEvent(tab, op, arg, verdict, loginSuccess, logout, at) ==
  [tab |-> tab, op |-> op, arg |-> arg, verdict |-> verdict,
   loginSuccess |-> loginSuccess, logout |-> logout, at |-> at]

NoAuthEvent == AuthEvent(0, "none", <<>>, "none", FALSE, FALSE, 0)

----------------------------------------------------------------------------
(* lib/adminAuth and lib/totp, as the specification describes them *)

AUTH_TOKEN_KEY == <<"_as_t">>

\* token lifetime and inactivity limit, in minutes
TOKEN_TTL == 15
INACTIVITY_LIMIT == 30

\* what the random nonce of a token can be
Nonces == { "n1" }

\* HMAC(secretDerivedFrom(hash), message), as hex text
hmacSign(hash, message) == <<Sym("hmac", 0, "", hash, message)>>

\* generateAuthToken at time t with the random nonce drawn:
\* issuedAt.nonce.signature, the signature over issuedAt || nonce
generateAuthToken(expectedPasswordHashHex, t, nonce) ==
  LET issuedAt == <<Digits(t)>>
      random == <<Text(nonce)>>
  IN issuedAt \o <<Dot>> \o random \o <<Dot>>
       \o hmacSign(expectedPasswordHashHex, issuedAt \o random)

\* the text is a decimal number
isNumeric(str) == Len(str) = 1 /\ str[1].c = "digits"

\* validateAuthToken at time t: three parts, a numeric issuedAt, the
\* recomputed signature equal to the third part, and t - issuedAt <= TTL
validateAuthToken(token, expectedPasswordHashHex, t) ==
  LET parts == split(token)
  IN IF Len(parts) # 3 THEN FALSE
     ELSE IF ~isNumeric(parts[1]) THEN FALSE
     ELSE IF parts[3] # hmacSign(expectedPasswordHashHex, parts[1] \o parts[2]) THEN FALSE
     ELSE t - parts[1][1].n <= TOKEN_TTL

\* getStoredAuthToken: the text under the key, "" standing for null as well
\* (every caller only tests it for truthiness before validating it)
getStoredAuthToken(s) == IF hasItem(s, AUTH_TOKEN_KEY) THEN s[AUTH_TOKEN_KEY] ELSE <<>>

storeAuthToken(s, token) == setItem(s, AUTH_TOKEN_KEY, token)

clearAuthToken(s) == removeItem(s, AUTH_TOKEN_KEY)

\* the TOTP time-step of minute t: floor(unixTimeSeconds / 30)
timeStep(t) == (t * 60) \div 30

\* the six-digit code of a secret at a time-step
totpCode(secret, step) == <<Sym("hotp6", step, secret, NoHex, <<>>)>>

isTotpEnabled(e) == e.VITE_TOTP_SECRET # ""

\* the steps verifyTotpCode compares against: current, preceding, following
totpWindow(step) == { step - 1, step, step + 1 }

\* verifyTotpCode at time t: six digits equal to the code of one of the
\* three steps; anything else is false
verifyTotpCode(code, e, t) ==
  /\ jsLength(code) = 6
  /\ \A i \in 1..Len(code) : code[i].c \in {"hotp6", "digits"}
  /\ \E step \in totpWindow(timeStep(t)) : code = totpCode(e.VITE_TOTP_SECRET, step)

----------------------------------------------------------------------------
(* AdminPanel's content state *)

\* the tabs of AdminPanel: the profile, the photo list, and one of the
\* content models that have no editor
PanelTabs == { "index", "photo", "stat" }

\* error messages are sequences of words
CONTENTFUL_TOKEN_MISSING == << "CONTENTFUL_TOKEN_MISSING" >>

\* the messages a remote call of lib/contentfulManagement can reject with
RemoteErrors == { CONTENTFUL_TOKEN_MISSING, << "Invalid ", "token" >>, << "e1" >> }

\* what a write call is seen to reject with
WriteErrors == { CONTENTFUL_TOKEN_MISSING, << "Invalid ", "token" >> }

\* err.message.includes('token')
includesToken(message) == \E i \in 1..Len(message) : message[i] = "token"

\* what getIndexAdmin can resolve with: the profile entry's id, or null
IndexResults == { NULL, "i1" }

\* what getPhotosAdmin can resolve with: the ids of the photo entries
PhotoResults == { << >>, << "p1" >> }

\* the fields setFormData receives from the profile and from a photo entry
IndexFields == { "heroTitle", "profileImageAssetId" }
PhotoFields == { "title", "imageAssetId" }

\* the useState values of AdminPanel; mounted says that the component has
\* rendered; error is the empty message when the state is null; formData is
\* the set of the fields that have a value
Panel(mounted, activeTab, entries, indexData, loading, error, editingId, isAdding, saving, uploadingImage, formData, showTokenModal) ==
  [mounted |-> mounted, activeTab |-> activeTab, entries |-> entries,
   indexData |-> indexData, loading |-> loading, error |-> error,
   editingId |-> editingId, isAdding |-> isAdding, saving |-> saving,
   uploadingImage |-> uploadingImage, formData |-> formData,
   showTokenModal |-> showTokenModal]

\* the initial values of the useState calls
initialPanel == Panel(FALSE, "index", << >>, NULL, TRUE, << >>, NULL, FALSE, FALSE, FALSE, {}, FALSE)

\* a handler awaiting a remote call: the function that awaits (fn), the
\* call (op), the handler that awaits fn when fn is fetchEntries (caller),
\* the activeTab the closure captured, and the call's argument
PanelCall(fn, op, caller, activeTab, arg) ==
  [fn |-> fn, op |-> op, caller |-> caller, activeTab |-> activeTab, arg |-> arg]

\* What a content handler did: the handler (fn), the remote call whose
\* promise settled ("none" in a step the user starts), the message it
\* rejected with, how the fetchEntries of the step went ("none": not called,
\* "no token", "awaits", "empty": a tab without remote data), and the remote
\* call the step started
PanelEvent(fn, settled, err, fetch, remote) ==
  [fn |-> fn, settled |-> settled, err |-> err, fetch |-> fetch, remote |-> remote]

NoPanelEvent == PanelEvent("none", "none", << >>, "none", "none")

\* AdminPanel has not rendered, nothing is pending
contentInit ==
  /\ panel = initialPanel
  /\ panelCalls = << >>
  /\ lastPanel = NoPanelEvent

\* no tab shows the application, nothing is pending
sessionInit ==
  /\ tabs = [t \in Tabs |-> ClosedTab]
  /\ storageEvents = [t \in Tabs |-> <<>>]
  /\ authCalls = {}
  /\ lastAuth = NoAuthEvent

Init ==
  /\ ls = << >>
  /\ now = 0
  /\ inflight = EmptyBag
  /\ last = NoEvent
  /\ env = Env("S1")
  /\ sessionInit
  /\ contentInit

\* the clock advances between handlers and while a call awaits
Tick ==
  /\ now < MaxTime
  /\ now' = now + 1
  /\ UNCHANGED <<ls, inflight, last, session, content>>

----------------------------------------------------------------------------
(* Events of the handlers *)

Started(op, ct, qk, maxAge, skip) ==
  Event(op, ct, qk, maxAge, skip, "pending", NULL, NoError, NULL, NoError, 1, FALSE, 0, NoError, FALSE)

Hit(op, ct, qk, maxAge, skip, data) ==
  Event(op, ct, qk, maxAge, skip, "hit", data, NoError, NULL, NoError, 0, FALSE, 0, NoError, FALSE)

\* the call c ended: r says how (outcome, data, err), resolved / thrown say
\* what its fetcher or updater settled with
Ended(c, r, resolved, thrown) ==
  Event(c.op, c.ct, c.qk, 0, FALSE, r.outcome, r.data, r.err, resolved, thrown, 1, c.overlap, 0, NoError,
        c.outdated)

Return(outcome, data) == [outcome |-> outcome, data |-> data, err |-> NoError]

Throw(error) == [outcome |-> "rejected", data |-> NULL, err |-> error]

Void(op, ct, qk) ==
  Event(op, ct, qk, 0, FALSE, "void", NULL, NoError, NULL, NoError, 0, FALSE, 0, NoError, FALSE)

\* a clearAll... call returned after removing the keys ks
Cleared(op, ks) ==
  Event(op, <<>>, <<>>, 0, FALSE, "void", NULL, NoError, NULL, NoError, 0, FALSE, Cardinality(ks), NoError,
        FALSE)

\* the calls awaiting a fetcher or updater
Pending == BagToSet(inflight)

\* room for one more pending call
CanAwait == BagCardinality(inflight) < MaxInFlight

\* variant: a call joins the pending call of the same function on the same
\* contentType and queryKey instead of invoking its own fetcher
AwaitShared(c) ==
  IF \E o \in BagToSet(inflight) : o.op = c.op /\ o.ct = c.ct /\ o.qk = c.qk
  THEN inflight
  ELSE inflight (+) SetToBag({c})

\* the call invokes its fetcher or updater and awaits it
Await(c) == inflight (+) SetToBag({c})

Settle(c) == inflight (-) SetToBag({c})

\* the pending calls f after a write of contentType completed: the
\* fetchWithMgmtCache calls of that content type are marked outdated
outdate(f, contentType) ==
  LET mark(c) == IF c.op = "fetchWithMgmtCache" /\ c.ct = contentType
                 THEN [c EXCEPT !.outdated = TRUE]
                 ELSE c
      RECURSIVE copies(_)
      copies(cs) == IF cs = {} THEN 0
                    ELSE LET c == CHOOSE x \in cs : TRUE
                         IN CopiesIn(c, f) + copies(cs \ {c})
  IN [d \in { mark(c) : c \in BagToSet(f) } |->
        copies({ c \in BagToSet(f) : mark(c) = d })]

----------------------------------------------------------------------------
(* Read cache operations *)

\* variant: a fresh entry is returned also when skipCache is set
readStartIgnoresSkip(op, contentType, queryKey, maxAge, skipCache) ==
  LET cached == getCachedData(ls, contentType, queryKey)
  IN IF cached.present /\ isFresh(cached, now, maxAge)
     THEN /\ last' = Hit(op, contentType, queryKey, maxAge, skipCache, cached.data)
          /\ UNCHANGED <<ls, now, inflight, session, content>>
     ELSE /\ CanAwait
          /\ inflight' = Await(Call(op, contentType, queryKey, FALSE))
          /\ last' = Started(op, contentType, queryKey, maxAge, skipCache)
          /\ UNCHANGED <<ls, now, session, content>>

\* fetchWithCache / fetchSingleWithCache up to `await fetcher()`: a fresh
\* entry is returned at once, otherwise the fetcher is invoked
readStart(op, contentType, queryKey, maxAge, skipCache) ==
  LET cached == getCachedData(ls, contentType, queryKey)
  IN IF ~skipCache /\ cached.present /\ isFresh(cached, now, maxAge)
     THEN /\ last' = Hit(op, contentType, queryKey, maxAge, skipCache, cached.data)
          /\ UNCHANGED <<ls, now, inflight, session, content>>
     ELSE /\ CanAwait
          /\ inflight' = Await(Call(op, contentType, queryKey, FALSE))
          /\ last' = Started(op, contentType, queryKey, maxAge, skipCache)
          /\ UNCHANGED <<ls, now, session, content>>

fetchWithCacheStart(contentType, queryKey, maxAge, skipCache) ==
  readStart("fetchWithCache", contentType, queryKey, maxAge, skipCache)

\* the fetcher resolved: store response.items under the current time, return it
fetchWithCacheResolve(c, items) ==
  /\ c \in Pending
  /\ c.op = "fetchWithCache"
  /\ ls' = setCachedData(ls, c.ct, items, c.qk, now)
  /\ inflight' = Settle(c)
  /\ last' = Ended(c, Return("fetched", items), items, NoError)
  /\ UNCHANGED <<now, session, content>>

\* variant: the catch block rethrows without looking at the cache
fetchWithCacheCatchRethrow(cached, error) == Throw(error)

\* variant: the catch block swallows the error when there is no entry
fetchWithCacheCatchSwallow(cached, error) ==
  IF cached.present THEN Return("stale", cached.data) ELSE Return("null", NULL)

\* the catch block of fetchWithCache: fall back to whatever entry the key
\* holds, else rethrow
fetchWithCacheCatch(cached, error) ==
  IF cached.present THEN Return("stale", cached.data) ELSE Throw(error)

fetchWithCacheReject(c, error) ==
  /\ c \in Pending
  /\ c.op = "fetchWithCache"
  /\ last' = Ended(c, fetchWithCacheCatch(getCachedData(ls, c.ct, c.qk), error),
                   NULL, error)
  /\ inflight' = Settle(c)
  /\ UNCHANGED <<ls, now, session, content>>

fetchSingleWithCacheStart(contentType, queryKey, maxAge, skipCache) ==
  readStart("fetchSingleWithCache", contentType, queryKey, maxAge, skipCache)

\* variant: the response is stored and returned whatever it is
fetchSingleWithCacheTryStoresAll(c, response, remote) ==
  /\ c \in Pending
  /\ c.op = "fetchSingleWithCache"
  /\ ls' = setCachedData(ls, c.ct, response, c.qk, now)
  /\ last' = [Ended(c, Return("fetched", response), response, NoError)
                EXCEPT !.remote = remote]
  /\ inflight' = Settle(c)
  /\ UNCHANGED <<now, session, content>>

\* the try block of fetchSingleWithCache after its fetcher resolved: a falsy
\* response returns null and stores nothing.  remote: the error of the remote
\* call that the fetcher itself caught before it resolved, if any
fetchSingleWithCacheTry(c, response, remote) ==
  /\ c \in Pending
  /\ c.op = "fetchSingleWithCache"
  /\ IF response = NULL
     THEN /\ ls' = ls
          /\ last' = [Ended(c, Return("null", NULL), response, NoError) EXCEPT !.remote = remote]
     ELSE /\ ls' = setCachedData(ls, c.ct, response, c.qk, now)
          /\ last' = [Ended(c, Return("fetched", response), response, NoError)
                        EXCEPT !.remote = remote]
  /\ inflight' = Settle(c)
  /\ UNCHANGED <<now, session, content>>

\* the fetcher resolved
fetchSingleWithCacheResolve(c, response) == fetchSingleWithCacheTry(c, response, NoError)

\* variant: the catch block rethrows when there is no entry
fetchSingleWithCacheCatchRethrow(cached, error) ==
  IF cached.present THEN Return("stale", cached.data) ELSE Throw(error)

\* the catch block of fetchSingleWithCache: the entry of the key, else null
fetchSingleWithCacheCatch(cached, error) ==
  IF cached.present THEN Return("stale", cached.data) ELSE Return("null", NULL)

fetchSingleWithCacheReject(c, error) ==
  /\ c \in Pending
  /\ c.op = "fetchSingleWithCache"
  /\ last' = Ended(c, fetchSingleWithCacheCatch(getCachedData(ls, c.ct, c.qk), error),
                   NULL, error)
  /\ inflight' = Settle(c)
  /\ UNCHANGED <<ls, now, session, content>>

clearContentfulCache(contentType, queryKey) ==
  /\ ls' = removeItems(ls, { getCacheKey(contentType, queryKey),
                             getEtagKey(contentType, queryKey),
                             getTimestampKey(contentType, queryKey) })
  /\ last' = Void("clearContentfulCache", contentType, queryKey)
  /\ UNCHANGED <<now, inflight, session, content>>

\* variant: only the data keys are removed
clearAllContentfulCacheDataOnly ==
  LET keysToRemove == { k \in DOMAIN ls : startsWith(k, CACHE_KEY_PREFIX) }
  IN /\ ls' = removeItems(ls, keysToRemove)
     /\ last' = Cleared("clearAllContentfulCache", keysToRemove)
     /\ UNCHANGED <<now, inflight, session, content>>

\* collects the keys with one of the three prefixes, then removes them
clearAllContentfulCache ==
  LET keysToRemove == { k \in DOMAIN ls :
                          \/ startsWith(k, CACHE_KEY_PREFIX)
                          \/ startsWith(k, ETAG_KEY_PREFIX)
                          \/ startsWith(k, TIMESTAMP_KEY_PREFIX) }
  IN /\ ls' = removeItems(ls, keysToRemove)
     /\ last' = Cleared("clearAllContentfulCache", keysToRemove)
     /\ UNCHANGED <<now, inflight, session, content>>

----------------------------------------------------------------------------
(* Management cache operations *)

clearMgmtCacheStore(s, contentType, queryKey) ==
  removeItem(s, mgmtGetCacheKey(contentType, queryKey))

\* fetchWithMgmtCache up to `await fetcher()`
fetchWithMgmtCacheStart(contentType, queryKey, skipCache) ==
  LET cached == mgmtGetCachedData(ls, contentType, queryKey, now)
  IN IF ~skipCache /\ cached # NULL
     THEN /\ last' = Hit("fetchWithMgmtCache", contentType, queryKey,
                         MGMT_CACHE_TTL, skipCache, cached)
          /\ UNCHANGED <<ls, now, inflight, session, content>>
     ELSE /\ CanAwait
          /\ inflight' = Await(Call("fetchWithMgmtCache", contentType, queryKey,
                                    \E o \in Pending :
                                       /\ o.op = "fetchWithMgmtCache"
                                       /\ mgmtGetCacheKey(o.ct, o.qk)
                                            = mgmtGetCacheKey(contentType, queryKey)))
          /\ last' = Started("fetchWithMgmtCache", contentType, queryKey,
                             MGMT_CACHE_TTL, skipCache)
          /\ UNCHANGED <<ls, now, session, content>>

\* the fetcher resolved: store the data under the current time and return it
fetchWithMgmtCacheResolve(c, data) ==
  /\ c \in Pending
  /\ c.op = "fetchWithMgmtCache"
  /\ ls' = mgmtSetCachedData(ls, c.ct, data, c.qk, now)
  /\ inflight' = Settle(c)
  /\ last' = Ended(c, Return("fetched", data), data, NoError)
  /\ UNCHANGED <<now, session, content>>

\* how fetchWithMgmtCache ends when its fetcher throws: the await is not
\* inside a try block, so the error leaves the function whatever the cache holds
fetchWithMgmtCacheThrow(entry, error) == Throw(error)

fetchWithMgmtCacheReject(c, error) ==
  /\ c \in Pending
  /\ c.op = "fetchWithMgmtCache"
  /\ last' = Ended(c, fetchWithMgmtCacheThrow(mgmtEntry(ls, c.ct, c.qk), error),
                   NULL, error)
  /\ inflight' = Settle(c)
  /\ UNCHANGED <<ls, now, session, content>>

\* optimisticUpdate up to `await updater()`: the optimistic value is cached
optimisticUpdateStart(contentType, optimisticData, queryKey) ==
  /\ CanAwait
  /\ ls' = mgmtSetCachedData(ls, contentType, optimisticData, queryKey, now)
  /\ inflight' = Await(Call("optimisticUpdate", contentType, queryKey,
                           \E o \in Pending :
                              /\ o.op = "optimisticUpdate"
                              /\ mgmtGetCacheKey(o.ct, o.qk)
                                   = mgmtGetCacheKey(contentType, queryKey)))
  /\ last' = Started("optimisticUpdate", contentType, queryKey, 0, FALSE)
  /\ UNCHANGED <<now, session, content>>

\* variant: the result is not written, only the list entry is cleared
optimisticUpdateThenKeepOptimistic(s, contentType, result, queryKey, t) ==
  clearMgmtCacheStore(s, contentType, <<>>)

\* variant: the result is written, the list entry is left in place
optimisticUpdateThenKeepList(s, contentType, result, queryKey, t) ==
  mgmtSetCachedData(s, contentType, result, queryKey, t)

\* the try branch after the updater resolved: cache the result, then clear
\* the list entry of the content type
optimisticUpdateThen(s, contentType, result, queryKey, t) ==
  clearMgmtCacheStore(mgmtSetCachedData(s, contentType, result, queryKey, t),
                      contentType, <<>>)

optimisticUpdateResolve(c, result) ==
  /\ c \in Pending
  /\ c.op = "optimisticUpdate"
  /\ ls' = optimisticUpdateThen(ls, c.ct, result, c.qk, now)
  /\ inflight' = outdate(Settle(c), c.ct)
  /\ last' = Ended(c, Return("fetched", result), result, NoError)
  /\ UNCHANGED <<now, session, content>>

\* variant: the catch branch leaves the cache as it is
optimisticUpdateCatchKeep(s, contentType, queryKey) == s

\* the catch branch: clear the entry of the key, rethrow
optimisticUpdateCatch(s, contentType, queryKey) ==
  clearMgmtCacheStore(s, contentType, queryKey)

optimisticUpdateReject(c, error) ==
  /\ c \in Pending
  /\ c.op = "optimisticUpdate"
  /\ ls' = optimisticUpdateCatch(ls, c.ct, c.qk)
  /\ inflight' = Settle(c)
  /\ last' = Ended(c, Throw(error), NULL, error)
  /\ UNCHANGED <<now, session, content>>

clearMgmtCache(contentType, queryKey) ==
  /\ ls' = clearMgmtCacheStore(ls, contentType, queryKey)
  /\ last' = Void("clearMgmtCache", contentType, queryKey)
  /\ UNCHANGED <<now, inflight, session, content>>

\* variant: the keys are removed while localStorage is walked by index, so
\* the key that moves into a freed index is skipped
clearAllMgmtCacheWhileWalking ==
  LET keys == { k \in DOMAIN ls : startsWith(k, MGMT_CACHE_PREFIX) }
      keysToRemove == IF keys = {} THEN {} ELSE { CHOOSE k \in keys : TRUE }
  IN /\ ls' = removeItems(ls, keysToRemove)
     /\ last' = Cleared("clearAllMgmtCache", keysToRemove)
     /\ UNCHANGED <<now, inflight, session, content>>

\* collects the keys that start with the prefix, then removes each
clearAllMgmtCache ==
  LET keysToRemove == { k \in DOMAIN ls : startsWith(k, MGMT_CACHE_PREFIX) }
  IN /\ ls' = removeItems(ls, keysToRemove)
     /\ last' = Cleared("clearAllMgmtCache", keysToRemove)
     /\ UNCHANGED <<now, inflight, session, content>>

\* variant: only the management entry is cleared
invalidateMgmtCacheStoreMgmtOnly(s, contentType) ==
  clearMgmtCacheStore(s, contentType, <<>>)

\* clearMgmtCache(contentType), then the read cache's `cf_cache_${contentType}`
\* and `cf_ts_${contentType}` keys
invalidateMgmtCacheStore(s, contentType) ==
  removeItem(removeItem(clearMgmtCacheStore(s, contentType, <<>>),
                        <<"cf_cache_">> \o contentType),
             <<"cf_ts_">> \o contentType)

invalidateMgmtCache(contentType) ==
  /\ ls' = invalidateMgmtCacheStore(ls, contentType)
  /\ last' = Void("invalidateMgmtCache", contentType, <<>>)
  /\ inflight' = outdate(inflight, contentType)
  /\ UNCHANGED <<now, session, content>>

----------------------------------------------------------------------------
(* Specifications *)

----------------------------------------------------------------------------
(* Session handlers: App, LoginScreen, AdminPanel *)

\* the time that passes between two steps of the session layer: the token
\* lifetime, or a minute more
Elapses == { TOKEN_TTL, TOKEN_TTL + 1 }

Elapse(d) ==
  /\ now + d <= MaxSessionTime
  /\ now' = now + d
  /\ UNCHANGED <<ls, inflight, last, session, content>>

\* the codes a user can submit at time t: the authenticator's code of the
\* configured secret at a step near the browser's, or of another secret
UserCodes(t) ==
  { totpCode("S1", timeStep(t) + d) : d \in -2..2 } \cup { totpCode("S2", timeStep(t)) }

\* the queues after tab w changed store s into s2: every other open tab is
\* sent a storage event when the value under the token key changed
dispatch(queues, w, s, s2) ==
  LET changed == \/ hasItem(s, AUTH_TOKEN_KEY) # hasItem(s2, AUTH_TOKEN_KEY)
                 \/ /\ hasItem(s, AUTH_TOKEN_KEY) /\ hasItem(s2, AUTH_TOKEN_KEY)
                    /\ s[AUTH_TOKEN_KEY] # s2[AUTH_TOKEN_KEY]
      e == StorageEvent(AUTH_TOKEN_KEY, getStoredAuthToken(s2), ~hasItem(s2, AUTH_TOKEN_KEY))
  IN [u \in Tabs |-> IF changed /\ u # w /\ tabs[u].open
                     THEN Append(queues[u], e) ELSE queues[u]]

\* a write started by a user fits the queues; the writes of promise
\* continuations and of listeners always go through
QueuesFit(queues) == \A u \in Tabs : Len(queues[u]) <= MaxPending

\* room for the storage event that a login will send
QueuesHaveRoom == \A u \in Tabs : Len(storageEvents[u]) < MaxPending

\* the calls of the other tabs
callsOfOthers(t) == { c \in authCalls : c.tab # t }

\* room for one more awaited promise in tab t
CanAwaitAuth(t, calls) == Cardinality({ c \in calls : c.tab = t }) < MaxPending

\* App's handleLogout in tab t, called as onLogout, from the store s:
\* clearAuthToken(), setIsAuthenticated(false).  calls, queues: the pending
\* calls and event queues left by the caller; e: the event of the caller
handleLogout(t, s, calls, queues, e) ==
  LET s2 == clearAuthToken(s)
      queues2 == dispatch(queues, t, ls, s2)
  IN /\ ls' = s2
     /\ storageEvents' = queues2
     /\ tabs' = [tabs EXCEPT ![t] =
                   IF @.isAuthenticated
                   THEN removeStorageListener(
                          freshLoginScreen([@ EXCEPT !.isAuthenticated = FALSE]))
                   ELSE @]
     /\ authCalls' = calls
     /\ lastAuth' = [e EXCEPT !.logout = TRUE]

\* AdminPanel mounts in tab t, whose state becomes tb, over the store s: its
\* effect runs checkAuth up to the await and registers the storage listener.
\* calls: the pending calls left by the caller; e: the event of the caller
AdminPanelMount(t, tb, s, calls, e) ==
  LET token == getStoredAuthToken(s)
      c == AuthCall(t, "AdminPanel.checkAuth", token, FALSE, "")
  IN IF truthy(token)
     THEN /\ c \notin calls
          /\ CanAwaitAuth(t, calls)
          /\ ls' = s
          /\ storageEvents' = dispatch(storageEvents, t, ls, s)
          /\ tabs' = [tabs EXCEPT ![t] = addStorageListener(tb)]
          /\ authCalls' = calls \cup {c}
          /\ lastAuth' = e
     ELSE \* clearAuthToken(); onLogout()
          /\ ls' = clearAuthToken(s)
          /\ storageEvents' = dispatch(storageEvents, t, ls, clearAuthToken(s))
          /\ tabs' = [tabs EXCEPT ![t] =
                        removeStorageListener(addStorageListener(
                          freshLoginScreen([tb EXCEPT !.isAuthenticated = FALSE])))]
          /\ authCalls' = calls
          /\ lastAuth' = [e EXCEPT !.logout = TRUE]

\* The user opens or reloads the application in tab t: the page's pending
\* work is gone, App mounts and its effect runs checkAuth up to the await.
\* Without a token: clearAuthToken(), setIsAuthenticated(false),
\* setIsChecking(false).
AppMount(t) ==
  LET token == getStoredAuthToken(ls)
      opened == Tab(TRUE, TRUE, FALSE, FALSE, "", FALSE, {}, now)
      queues == [storageEvents EXCEPT ![t] = <<>>]
  IN /\ IF truthy(token)
        THEN /\ tabs' = [tabs EXCEPT ![t] = opened]
             /\ authCalls' = callsOfOthers(t) \cup {AuthCall(t, "App.checkAuth", token, FALSE, "")}
             /\ storageEvents' = queues
             /\ lastAuth' = AuthEvent(t, "App", token, "none", FALSE, FALSE, now)
             /\ UNCHANGED ls
        ELSE /\ QueuesFit(dispatch(queues, t, ls, clearAuthToken(ls)))
             /\ ls' = clearAuthToken(ls)
             /\ storageEvents' = dispatch(queues, t, ls, clearAuthToken(ls))
             /\ tabs' = [tabs EXCEPT ![t] = [opened EXCEPT !.isChecking = FALSE]]
             /\ authCalls' = callsOfOthers(t)
             /\ lastAuth' = AuthEvent(t, "App.checkAuth", token, "no token", FALSE, FALSE, now)
     /\ UNCHANGED <<now, inflight, last, env, content>>

\* variant: a token that failed validation is left in the store
AppCheckAuthFailedKeepToken(s) == s

\* the store after the else branch of App's checkAuth: clearAuthToken()
AppCheckAuthFailed(s) == clearAuthToken(s)

\* App's checkAuth after `await validateAuthToken(token, expectedHash)`
AppCheckAuthResolve(c) ==
  /\ c \in authCalls
  /\ c.op = "App.checkAuth"
  /\ LET t == c.tab
         valid == validateAuthToken(c.arg, AppExpectedHash(env), now)
         e == AuthEvent(t, "App.checkAuth", c.arg, IF valid THEN "valid" ELSE "invalid",
                        FALSE, FALSE, now)
     IN IF valid
        THEN AdminPanelMount(t, [tabs[t] EXCEPT !.isChecking = FALSE, !.isAuthenticated = TRUE],
                             ls, authCalls \ {c}, e)
        ELSE /\ ls' = AppCheckAuthFailed(ls)
             /\ storageEvents' = dispatch(storageEvents, t, ls, AppCheckAuthFailed(ls))
             /\ tabs' = [tabs EXCEPT ![t] = [@ EXCEPT !.isChecking = FALSE, !.isAuthenticated = FALSE]]
             /\ authCalls' = authCalls \ {c}
             /\ lastAuth' = e
  /\ UNCHANGED <<now, inflight, last, env, content>>

\* variant: only a missing token fails the check
checkAuthFailedOnlyWithoutToken(token, valid) == ~truthy(token)

\* the test of AdminPanel's checkAuth:
\* `!token || !(await validateAuthToken(token, expectedHash))`
checkAuthFailed(token, valid) == ~truthy(token) \/ ~valid

\* AdminPanel's checkAuth after `await validateAuthToken(token, expectedHash)`:
\* clearAuthToken(); onLogout() unless the token validated
AdminPanelCheckAuthResolve(c) ==
  /\ c \in authCalls
  /\ c.op = "AdminPanel.checkAuth"
  /\ LET t == c.tab
         valid == validateAuthToken(c.arg, AdminPanelExpectedHash(env), now)
         e == AuthEvent(t, "AdminPanel.checkAuth", c.arg, IF valid THEN "valid" ELSE "invalid",
                        FALSE, FALSE, now)
     IN IF checkAuthFailed(c.arg, valid)
        THEN handleLogout(t, clearAuthToken(ls), authCalls \ {c}, storageEvents, e)
        ELSE /\ authCalls' = authCalls \ {c}
             /\ lastAuth' = e
             /\ UNCHANGED <<ls, tabs, storageEvents>>
  /\ UNCHANGED <<now, inflight, last, env, content>>

\* variant: the listener reacts to no event
handleStorageChangeLogsOutNever(listening, e) == FALSE

\* the test of AdminPanel's storage listener, when it is registered:
\* `e.key === '_as_t' && !e.newValue`
handleStorageChangeLogsOut(listening, e) ==
  listening /\ e.key = <<"_as_t">> /\ (e.removed \/ ~truthy(e.newValue))

\* the browser delivers the oldest storage event queued for tab t to the
\* listeners registered on its window
handleStorageChange(t) ==
  /\ storageEvents[t] # <<>>
  /\ LET e == Head(storageEvents[t])
         queues == [storageEvents EXCEPT ![t] = Tail(@)]
         seen == AuthEvent(t, "handleStorageChange", e.newValue, "none", FALSE, FALSE, now)
     IN IF handleStorageChangeLogsOut(tabs[t].listeners > 0, e)
        THEN handleLogout(t, ls, authCalls, queues, seen)
        ELSE /\ storageEvents' = queues
             /\ lastAuth' = seen
             /\ UNCHANGED <<ls, tabs, authCalls>>
  /\ UNCHANGED <<now, inflight, last, env, content>>

\* App renders again in tab t while it shows AdminPanel: handleLogout is a
\* new function, so the effect on [onLogout] is cleaned up and runs again
AppRender(t) ==
  /\ AdminPanelShown(tabs[t])
  /\ AdminPanelMount(t, removeStorageListener(tabs[t]), ls, authCalls,
                     AuthEvent(t, "App.render", << >>, "none", FALSE, FALSE, now))
  /\ UNCHANGED <<now, inflight, last, env, content>>

\* AdminPanel's handleLogout (the logout button): clearAuthToken(),
\* onLogout(), then the tab navigates away from the application
AdminPanelHandleLogout(t) ==
  /\ AdminPanelShown(tabs[t])
  /\ LET s2 == clearAuthToken(ls)
         queues == dispatch([storageEvents EXCEPT ![t] = <<>>], t, ls, s2)
     IN /\ QueuesFit(queues)
        /\ ls' = s2
        /\ storageEvents' = queues
        /\ tabs' = [tabs EXCEPT ![t] = ClosedTab]
        /\ authCalls' = callsOfOthers(t)
        /\ lastAuth' = AuthEvent(t, "AdminPanel.handleLogout", <<>>, "none", FALSE, TRUE, now)
  /\ UNCHANGED <<now, inflight, last, env, content>>

\* the finally block of handleLoginSubmit, on the values its closure captured:
\* `if (!showTotpInput || (showTotpInput && passwordError)) setVerifying(false)`
finallyBlock(c, tb) ==
  IF ~c.showTotpInput \/ (c.showTotpInput /\ c.passwordError # "")
  THEN [tb EXCEPT !.verifying = FALSE]
  ELSE tb

\* handleLoginSubmit up to its first await; the submit button is disabled
\* while verifying, without a password, or without a six-character code
handleLoginSubmit(t, input) ==
  /\ LoginScreenShown(tabs[t])
  /\ ~tabs[t].verifying
  /\ IF tabs[t].showTotpInput THEN jsLength(input) = 6 ELSE truthy(input)
  /\ QueuesHaveRoom
  /\ LET tb == tabs[t]
         c == AuthCall(t, IF tb.showTotpInput THEN "verifyTotpCode" ELSE "sha256", input,
                       tb.showTotpInput, tb.passwordError)
     IN /\ c \notin authCalls
        /\ CanAwaitAuth(t, authCalls)
        /\ authCalls' = authCalls \cup {c}
        /\ tabs' = [tabs EXCEPT ![t] = [tb EXCEPT !.verifying = TRUE, !.passwordError = "",
                                                  !.lastActivity = now]]
        /\ lastAuth' = AuthEvent(t, "handleLoginSubmit", input, "none", FALSE, FALSE, now)
  /\ UNCHANGED <<ls, storageEvents, now, inflight, last, env, content>>

\* variant: a matching password completes the login whatever the TOTP setting
passwordBranchSkipsTotp(hashedPassword, expectedHash, totpEnabled) ==
  IF hashedPassword = toLowerCase(expectedHash) THEN "complete" ELSE "error"

\* the password branch of handleLoginSubmit: show the code input, complete
\* the login, or report an incorrect password
passwordBranch(hashedPassword, expectedHash, totpEnabled) ==
  IF hashedPassword = toLowerCase(expectedHash)
  THEN IF totpEnabled THEN "totp" ELSE "complete"
  ELSE "error"

\* completeLogin up to `await generateAuthToken(expectedHash)`
completeLoginStart(c) == AuthCall(c.tab, "generateAuthToken", <<>>, c.showTotpInput, c.passwordError)

\* handleLoginSubmit after `await sha256(password)`
handleLoginSubmitHashed(c) ==
  /\ c \in authCalls
  /\ c.op = "sha256"
  /\ LET t == c.tab
         expectedHash == expectedHashOf(env)
         hashedPassword == sha256(c.arg)
         matched == hashedPassword = toLowerCase(expectedHash)
         branch == passwordBranch(hashedPassword, expectedHash, isTotpEnabled(env))
         tb == [tabs[t] EXCEPT !.passed = IF matched THEN @ \cup {"password"} ELSE @]
     IN /\ CASE branch = "totp" ->
                  /\ tabs' = [tabs EXCEPT ![t] =
                                finallyBlock(c, [tb EXCEPT !.showTotpInput = TRUE,
                                                           !.verifying = FALSE])]
                  /\ authCalls' = authCalls \ {c}
             [] branch = "complete" ->
                  /\ tabs' = [tabs EXCEPT ![t] = tb]
                  /\ authCalls' = (authCalls \ {c}) \cup {completeLoginStart(c)}
             [] OTHER ->
                  /\ tabs' = [tabs EXCEPT ![t] =
                                finallyBlock(c, [tb EXCEPT !.passwordError = "Incorrect password"])]
                  /\ authCalls' = authCalls \ {c}
        /\ lastAuth' = AuthEvent(t, "handleLoginSubmit.password", c.arg,
                                 IF matched THEN "true" ELSE "false", FALSE, FALSE, now)
  /\ UNCHANGED <<ls, storageEvents, now, inflight, last, env, content>>

\* variant: the login completes whatever verifyTotpCode returned
totpBranchAcceptsAll(accepted) == "complete"

\* the TOTP branch of handleLoginSubmit
totpBranch(accepted) == IF accepted THEN "complete" ELSE "error"

\* handleLoginSubmit after `await verifyTotpCode(totpCode)`
handleLoginSubmitVerified(c) ==
  /\ c \in authCalls
  /\ c.op = "verifyTotpCode"
  /\ LET t == c.tab
         accepted == verifyTotpCode(c.arg, env, now)
         tb == [tabs[t] EXCEPT !.passed = IF accepted THEN @ \cup {"totp"} ELSE @]
     IN /\ IF totpBranch(accepted) = "complete"
           THEN /\ tabs' = [tabs EXCEPT ![t] = tb]
                /\ authCalls' = (authCalls \ {c}) \cup {completeLoginStart(c)}
           ELSE /\ tabs' = [tabs EXCEPT ![t] =
                              finallyBlock(c, [tb EXCEPT !.passwordError =
                                                           "Invalid authentication code"])]
                /\ authCalls' = authCalls \ {c}
        /\ lastAuth' = AuthEvent(t, "handleLoginSubmit.totp", c.arg,
                                 IF accepted THEN "true" ELSE "false", FALSE, FALSE, now)
  /\ UNCHANGED <<ls, storageEvents, now, inflight, last, env, content>>

\* completeLogin after `await generateAuthToken(expectedHash)`:
\* storeAuthToken(token), the fields are reset, onLoginSuccess() sets
\* isAuthenticated and AdminPanel mounts
completeLogin(c, nonce) ==
  /\ c \in authCalls
  /\ c.op = "generateAuthToken"
  /\ LET t == c.tab
         token == generateAuthToken(expectedHashOf(env), now, nonce)
     IN AdminPanelMount(t, freshLoginScreen([tabs[t] EXCEPT !.isAuthenticated = TRUE]),
                        storeAuthToken(ls, token), authCalls \ {c},
                        AuthEvent(t, "completeLogin", token, "none", TRUE, FALSE, now))
  /\ UNCHANGED <<now, inflight, last, env, content>>

\* the catch block of handleLoginSubmit: an awaited promise rejected
handleLoginSubmitCatch(c) ==
  /\ c \in authCalls
  /\ c.op \in {"sha256", "verifyTotpCode", "generateAuthToken"}
  /\ tabs' = [tabs EXCEPT ![c.tab] =
                finallyBlock(c, [@ EXCEPT !.passwordError = "Verification failed"])]
  /\ authCalls' = authCalls \ {c}
  /\ lastAuth' = AuthEvent(c.tab, "handleLoginSubmit.catch", c.arg, "none", FALSE, FALSE, now)
  /\ UNCHANGED <<ls, storageEvents, now, inflight, last, env, content>>

\* a token this build issued at time t
genuineToken(t) == generateAuthToken(Hex(<<Text("pw")>>, "upper"), t, "n1")

\* What can be written under the token key from outside the application:
\* the empty string, texts with one, two and four fields, the token issued
\* at time 0 with another signature, the same token with its timestamp moved
\* to the end of the clock, and a token signed from another password hash
TamperedTokens ==
  { <<>>,
    <<Text("junk")>>,
    <<Digits(0), Dot, Text("n1")>>,
    genuineToken(0) \o <<Dot, Text("x")>>,
    SubSeq(genuineToken(0), 1, 4) \o hmacSign(Hex(<<Text("pw")>>, "upper"), <<Text("forged")>>),
    <<Digits(MaxSessionTime)>> \o Tail(genuineToken(0)),
    generateAuthToken(Hex(<<Text("bad")>>, "upper"), MaxSessionTime, "n1") }

\* the text under the token key is rewritten from outside the application
\* (developer tools, another script of the origin)
tamperToken(token) ==
  /\ QueuesFit(dispatch(storageEvents, 0, ls, storeAuthToken(ls, token)))
  /\ ls' = storeAuthToken(ls, token)
  /\ storageEvents' = dispatch(storageEvents, 0, ls, storeAuthToken(ls, token))
  /\ lastAuth' = AuthEvent(0, "tamperToken", token, "none", FALSE, FALSE, now)
  /\ UNCHANGED <<tabs, authCalls, now, inflight, last, env, content>>

\* the session layer with every build configuration
InitSession ==
  /\ ls = << >>
  /\ now = 0
  /\ inflight = EmptyBag
  /\ last = NoEvent
  /\ env \in { Env(secret) : secret \in TotpSecrets }
  /\ sessionInit
  /\ contentInit

NextSession ==
  \/ \E d \in Elapses : Elapse(d)
  \/ \E t \in Tabs : AppMount(t)
  \/ \E c \in authCalls : AppCheckAuthResolve(c)
  \/ \E c \in authCalls : AdminPanelCheckAuthResolve(c)
  \/ \E t \in Tabs : handleStorageChange(t)
  \/ \E t \in Tabs : AdminPanelHandleLogout(t)
  \/ \E t \in Tabs, input \in Passwords \cup UserCodes(now) : handleLoginSubmit(t, input)
  \/ \E c \in authCalls : handleLoginSubmitHashed(c)
  \/ \E c \in authCalls : handleLoginSubmitVerified(c)
  \/ \E c \in authCalls, nonce \in Nonces : completeLogin(c, nonce)
  \/ \E c \in authCalls : handleLoginSubmitCatch(c)
  \/ \E token \in TamperedTokens : tamperToken(token)

SpecSession == InitSession /\ [][NextSession]_vars

\* one tab: login, reload, logout, and the clock
NextLogin ==
  \/ \E d \in Elapses : Elapse(d)
  \/ AppMount(1)
  \/ \E c \in authCalls : AppCheckAuthResolve(c)
  \/ \E c \in authCalls : AdminPanelCheckAuthResolve(c)
  \/ AdminPanelHandleLogout(1)
  \/ \E input \in Passwords \cup UserCodes(now) : handleLoginSubmit(1, input)
  \/ \E c \in authCalls : handleLoginSubmitHashed(c)
  \/ \E c \in authCalls : handleLoginSubmitVerified(c)
  \/ \E c \in authCalls, nonce \in Nonces : completeLogin(c, nonce)
  \/ \E c \in authCalls : handleLoginSubmitCatch(c)

SpecLogin == InitSession /\ [][NextLogin]_vars

\* promises settle: a handler that awaits one is resumed
PromisesSettle ==
  /\ WF_vars(\E c \in authCalls : AppCheckAuthResolve(c))
  /\ WF_vars(\E c \in authCalls : AdminPanelCheckAuthResolve(c))
  /\ WF_vars(\E c \in authCalls : handleLoginSubmitHashed(c))
  /\ WF_vars(\E c \in authCalls : handleLoginSubmitVerified(c))
  /\ WF_vars(\E c \in authCalls, nonce \in Nonces : completeLogin(c, nonce))

SpecLoginFair == SpecLogin /\ PromisesSettle

\* two tabs at one time: login, reload, logout, storage events
NextTabs ==
  \/ \E t \in Tabs : AppMount(t)
  \/ \E c \in authCalls : AppCheckAuthResolve(c)
  \/ \E c \in authCalls : AdminPanelCheckAuthResolve(c)
  \/ \E t \in Tabs : handleStorageChange(t)
  \/ \E t \in Tabs : AdminPanelHandleLogout(t)
  \/ \E t \in Tabs, input \in { <<Text("pw")>>, totpCode("S1", timeStep(now)) } :
       handleLoginSubmit(t, input)
  \/ \E c \in authCalls : handleLoginSubmitHashed(c)
  \/ \E c \in authCalls : handleLoginSubmitVerified(c)
  \/ \E c \in authCalls, nonce \in Nonces : completeLogin(c, nonce)

SpecTabs == Init /\ [][NextTabs]_vars

\* the browser delivers every storage event it queued for a tab
EventsDelivered == \A t \in Tabs : WF_vars(handleStorageChange(t))

SpecTabsFair == SpecTabs /\ EventsDelivered

\* two tabs, and App rendering again under a mounted AdminPanel
NextListeners ==
  \/ NextTabs
  \/ \E t \in Tabs : AppRender(t)

SpecListeners == Init /\ [][NextListeners]_vars

\* one tab whose token is rewritten from outside between its handlers
NextTamper ==
  \/ AppMount(1)
  \/ \E c \in authCalls : AppCheckAuthResolve(c)
  \/ \E c \in authCalls : AdminPanelCheckAuthResolve(c)
  \/ \E input \in Passwords \cup { totpCode("S1", timeStep(now)) } : handleLoginSubmit(1, input)
  \/ \E c \in authCalls : handleLoginSubmitHashed(c)
  \/ \E c \in authCalls : handleLoginSubmitVerified(c)
  \/ \E c \in authCalls, nonce \in Nonces : completeLogin(c, nonce)
  \/ \E token \in TamperedTokens : tamperToken(token)

SpecTamper == Init /\ [][NextTamper]_vars

\* both caches and a login in one tab, so that the store holds entries of
\* the read cache, of the management cache, and the session token
NextClear ==
  \/ \E ct \in ContentTypes, qk \in QueryKeys, maxAge \in MaxAges :
       fetchWithCacheStart(ct, qk, maxAge, FALSE)
  \/ \E c \in Pending, r \in NetResults : fetchWithCacheResolve(c, r)
  \/ \E ct \in ContentTypes, qk \in QueryKeys : fetchWithMgmtCacheStart(ct, qk, FALSE)
  \/ \E c \in Pending, r \in NetResults : fetchWithMgmtCacheResolve(c, r)
  \/ clearAllMgmtCache
  \/ clearAllContentfulCache
  \/ AppMount(1)
  \/ \E input \in { <<Text("pw")>>, totpCode("S1", timeStep(now)) } : handleLoginSubmit(1, input)
  \/ \E c \in authCalls : handleLoginSubmitHashed(c)
  \/ \E c \in authCalls : handleLoginSubmitVerified(c)
  \/ \E c \in authCalls, nonce \in Nonces : completeLogin(c, nonce)

SpecClear == Init /\ [][NextClear]_vars

\* the read cache under its callers
NextRead ==
  \/ Tick
  \/ \E ct \in ContentTypes, qk \in QueryKeys,
        maxAge \in MaxAges, skip \in BOOLEAN :
       fetchWithCacheStart(ct, qk, maxAge, skip)
  \/ \E c \in Pending, r \in NetResults : fetchWithCacheResolve(c, r)
  \/ \E c \in Pending, e \in Errors : fetchWithCacheReject(c, e)
  \/ \E ct \in ContentTypes, qk \in QueryKeys,
        maxAge \in MaxAges, skip \in BOOLEAN :
       fetchSingleWithCacheStart(ct, qk, maxAge, skip)
  \/ \E c \in Pending, r \in NetResults \cup {NULL} : fetchSingleWithCacheResolve(c, r)
  \/ \E c \in Pending, e \in Errors : fetchSingleWithCacheReject(c, e)
  \/ \E ct \in ContentTypes, qk \in QueryKeys : clearContentfulCache(ct, qk)
  \/ clearAllContentfulCache

SpecRead == Init /\ [][NextRead]_vars

\* the management cache under its callers
NextMgmt ==
  \/ Tick
  \/ \E ct \in ContentTypes, qk \in QueryKeys, skip \in BOOLEAN :
       fetchWithMgmtCacheStart(ct, qk, skip)
  \/ \E c \in Pending, r \in NetResults : fetchWithMgmtCacheResolve(c, r)
  \/ \E c \in Pending, e \in Errors : fetchWithMgmtCacheReject(c, e)
  \/ \E ct \in ContentTypes, qk \in QueryKeys, o \in OptimisticValues :
       optimisticUpdateStart(ct, o, qk)
  \/ \E c \in Pending, r \in NetResults : optimisticUpdateResolve(c, r)
  \/ \E c \in Pending, e \in Errors : optimisticUpdateReject(c, e)
  \/ \E ct \in ContentTypes, qk \in QueryKeys : clearMgmtCache(ct, qk)
  \/ clearAllMgmtCache

SpecMgmt == Init /\ [][NextMgmt]_vars

\* invalidation between reads of both caches: the read cache with and without
\* a queryKey, the management cache for the list of the content type
NextInvalidate ==
  \/ Tick
  \/ \E ct \in ContentTypes, qk \in QueryKeys,
        maxAge \in MaxAges, skip \in BOOLEAN :
       fetchWithCacheStart(ct, qk, maxAge, skip)
  \/ \E c \in Pending, r \in NetResults : fetchWithCacheResolve(c, r)
  \/ \E ct \in ContentTypes, skip \in BOOLEAN :
       fetchWithMgmtCacheStart(ct, <<>>, skip)
  \/ \E c \in Pending, r \in NetResults : fetchWithMgmtCacheResolve(c, r)
  \/ \E ct \in ContentTypes : invalidateMgmtCache(ct)

SpecInvalidate == Init /\ [][NextInvalidate]_vars

Next == NextRead \/ NextMgmt \/ \E ct \in ContentTypes : invalidateMgmtCache(ct)

Spec == Init /\ [][Next]_vars

----------------------------------------------------------------------------
(* AdminPanel's content handlers.  The functions of lib/contentfulManagement *)
(* are the environment: hasManagementToken() answers either way, a remote  *)
(* call resolves or rejects with one of RemoteErrors.                      *)

CanAwaitPanel(calls) == Len(calls) < MaxPending

\* the pending calls without the i-th
without(calls, i) == SubSeq(calls, 1, i - 1) \o SubSeq(calls, i + 1, Len(calls))

\* the rows of the photo list
entryIds(p) == { p.entries[k] : k \in 1..Len(p.entries) }

\* the page can be clicked: the token prompt, when shown, covers it
PageUsable(p) == p.mounted /\ ~p.showTokenModal

\* what the page shows: the photo list, the photo form, the profile form
PhotoListShown(p) ==
  PageUsable(p) /\ p.activeTab = "photo" /\ ~p.loading /\ ~p.isAdding /\ p.editingId = NULL

PhotoFormShown(p) ==
  PageUsable(p) /\ p.activeTab = "photo" /\ ~p.loading /\ (p.isAdding \/ p.editingId # NULL)

IndexFormShown(p) ==
  PageUsable(p) /\ p.activeTab = "index" /\ (p.indexData # NULL \/ p.loading)

\* setFormData({})
resetForm(p) == [p EXCEPT !.formData = {}]

\* what the handler that awaited fetchEntries() does next, finally block
\* included; activeTab is the value its closure captured
afterFetchEntries(p, caller, activeTab) ==
  CASE caller = "handleAdd" ->
         [resetForm([p EXCEPT !.isAdding = FALSE]) EXCEPT !.saving = FALSE]
    [] caller = "handleUpdate" ->
         [(IF activeTab # "index" THEN resetForm([p EXCEPT !.editingId = NULL]) ELSE p)
            EXCEPT !.saving = FALSE]
    [] caller = "handleDelete" -> [p EXCEPT !.saving = FALSE]
    [] OTHER -> p

\* fetchEntries up to its await, called from the state p with activeTab in
\* its closure; has is the answer of hasManagementToken(); calls, e: the
\* pending calls and the event left by the caller.  Without a token, and on
\* a tab without remote data, the function completes at once and caller
\* continues.
fetchEntries(p, activeTab, caller, calls, has, e) ==
  LET p1 == resetForm([p EXCEPT !.loading = TRUE, !.error = << >>,
                                !.editingId = NULL, !.isAdding = FALSE])
      op == IF activeTab = "index" THEN "getIndexAdmin" ELSE "getPhotosAdmin"
  IN IF ~has
     THEN /\ panel' = afterFetchEntries([p1 EXCEPT !.showTokenModal = TRUE,
                                                   !.loading = FALSE],
                                        caller, activeTab)
          /\ panelCalls' = calls
          /\ lastPanel' = [e EXCEPT !.fetch = "no token"]
     ELSE IF activeTab \in { "index", "photo" }
     THEN /\ CanAwaitPanel(calls)
          /\ panel' = p1
          /\ panelCalls' = Append(calls, PanelCall("fetchEntries", op, caller, activeTab, NULL))
          /\ lastPanel' = [e EXCEPT !.fetch = "awaits", !.remote = op]
     ELSE /\ panel' = afterFetchEntries([p1 EXCEPT !.entries = << >>,
                                                   !.indexData = NULL,
                                                   !.loading = FALSE],
                                        caller, activeTab)
          /\ panelCalls' = calls
          /\ lastPanel' = [e EXCEPT !.fetch = "empty"]

\* AdminPanel renders for the first time: the effect on [activeTab] runs
AdminPanelRender(has) ==
  /\ ~panel.mounted
  /\ fetchEntries([panel EXCEPT !.mounted = TRUE], panel.activeTab, "none", panelCalls,
                  has, PanelEvent("fetchEntries", "none", << >>, "none", "none"))
  /\ UNCHANGED <<ls, now, inflight, last, session>>

\* the user selects a tab: setActiveTab, then the effect on [activeTab]
setActiveTab(a, has) ==
  /\ PageUsable(panel)
  /\ a # panel.activeTab
  /\ fetchEntries([panel EXCEPT !.activeTab = a], a, "none", panelCalls,
                  has, PanelEvent("setActiveTab", "none", << >>, "none", "none"))
  /\ UNCHANGED <<ls, now, inflight, last, session>>

\* the refresh button, disabled while loading
refresh(has) ==
  /\ PageUsable(panel)
  /\ ~panel.loading
  /\ fetchEntries(panel, panel.activeTab, "none", panelCalls,
                  has, PanelEvent("fetchEntries", "none", << >>, "none", "none"))
  /\ UNCHANGED <<ls, now, inflight, last, session>>

\* the token form is submitted with a token in it
handleTokenSubmit(has) ==
  /\ panel.mounted
  /\ panel.showTokenModal
  /\ fetchEntries([panel EXCEPT !.showTokenModal = FALSE, !.loading = TRUE],
                  panel.activeTab, "none", panelCalls,
                  has, PanelEvent("handleTokenSubmit", "none", << >>, "none", "none"))
  /\ UNCHANGED <<ls, now, inflight, last, session>>

\* the banner's dismiss button: setError(null)
dismissError ==
  /\ PageUsable(panel)
  /\ panel.error # << >>
  /\ panel' = [panel EXCEPT !.error = << >>]
  /\ lastPanel' = PanelEvent("dismissError", "none", << >>, "none", "none")
  /\ UNCHANGED <<panelCalls, ls, now, inflight, last, session>>

startAdd ==
  /\ PageUsable(panel)
  /\ panel.activeTab = "photo" /\ ~panel.isAdding /\ panel.editingId = NULL
  /\ panel' = [resetForm(panel) EXCEPT !.isAdding = TRUE, !.editingId = NULL]
  /\ lastPanel' = PanelEvent("startAdd", "none", << >>, "none", "none")
  /\ UNCHANGED <<panelCalls, ls, now, inflight, last, session>>

startEdit(id) ==
  /\ PhotoListShown(panel)
  /\ id \in entryIds(panel)
  /\ panel' = [panel EXCEPT !.editingId = id,
                            !.formData = IF panel.activeTab = "photo" THEN PhotoFields ELSE @,
                            !.isAdding = FALSE]
  /\ lastPanel' = PanelEvent("startEdit", "none", << >>, "none", "none")
  /\ UNCHANGED <<panelCalls, ls, now, inflight, last, session>>

cancelEdit ==
  /\ PhotoFormShown(panel)
  /\ panel' = resetForm([panel EXCEPT !.editingId = NULL, !.isAdding = FALSE])
  /\ lastPanel' = PanelEvent("cancelEdit", "none", << >>, "none", "none")
  /\ UNCHANGED <<panelCalls, ls, now, inflight, last, session>>

\* the user types a title into the photo form
changeTitle ==
  /\ PhotoFormShown(panel)
  /\ panel' = [panel EXCEPT !.formData = @ \cup { "title" }]
  /\ lastPanel' = PanelEvent("changeTitle", "none", << >>, "none", "none")
  /\ UNCHANGED <<panelCalls, ls, now, inflight, last, session>>

\* a handler's write call starts: setSaving(true), then the await
startWrite(fn, op, arg, has) ==
  LET e == PanelEvent(fn, "none", << >>, "none", "none")
  IN IF op # "none"
     THEN /\ CanAwaitPanel(panelCalls)
          /\ panel' = [panel EXCEPT !.saving = TRUE]
          /\ panelCalls' = Append(panelCalls, PanelCall(fn, op, "none", panel.activeTab, arg))
          /\ lastPanel' = [e EXCEPT !.remote = op]
     ELSE fetchEntries([panel EXCEPT !.saving = TRUE], panel.activeTab, fn, panelCalls, has, e)

\* the Save button of the photo form while adding, disabled while saving
handleAdd(has) ==
  /\ PhotoFormShown(panel) /\ panel.isAdding /\ ~panel.saving
  /\ IF "title" \notin panel.formData
     THEN /\ panel' = [panel EXCEPT !.error = << "Title is required" >>]
          /\ lastPanel' = PanelEvent("handleAdd", "none", << >>, "none", "none")
          /\ UNCHANGED panelCalls
     ELSE startWrite("handleAdd",
                     IF panel.activeTab = "photo" THEN "createPhoto" ELSE "none",
                     NULL, has)
  /\ UNCHANGED <<ls, now, inflight, last, session>>

\* the Save button of the profile form, and of the photo form while editing
handleUpdate(has) ==
  /\ IndexFormShown(panel) \/ (PhotoFormShown(panel) /\ ~panel.isAdding)
  /\ ~panel.saving
  /\ IF panel.editingId = NULL
     THEN /\ lastPanel' = PanelEvent("handleUpdate", "none", << >>, "none", "none")
          /\ UNCHANGED <<panel, panelCalls>>
     ELSE startWrite("handleUpdate",
                     CASE panel.activeTab = "index" -> "updateIndex"
                       [] panel.activeTab = "photo" -> "updatePhoto"
                       [] OTHER -> "none",
                     panel.editingId, has)
  /\ UNCHANGED <<ls, now, inflight, last, session>>

\* the delete button of a row, confirmed
handleDelete(id, has) ==
  /\ PhotoListShown(panel)
  /\ id \in entryIds(panel)
  /\ startWrite("handleDelete",
                IF panel.activeTab = "photo" THEN "deletePhoto" ELSE "none",
                id, has)
  /\ UNCHANGED <<ls, now, inflight, last, session>>

\* a file is chosen in the upload input of the form shown, disabled while
\* uploading
handleImageUpload(fieldName) ==
  /\ \/ IndexFormShown(panel) /\ fieldName = "profileImageAssetId"
     \/ PhotoFormShown(panel) /\ fieldName = "imageAssetId"
  /\ ~panel.uploadingImage
  /\ CanAwaitPanel(panelCalls)
  /\ panel' = [panel EXCEPT !.uploadingImage = TRUE]
  /\ panelCalls' = Append(panelCalls,
                          PanelCall("handleImageUpload", "uploadAsset", "none",
                                    panel.activeTab, fieldName))
  /\ lastPanel' = PanelEvent("handleImageUpload", "none", << >>, "none", "uploadAsset")
  /\ UNCHANGED <<ls, now, inflight, last, session>>

\* fetchEntries after `await getIndexAdmin()`
fetchEntriesIndexResolve(i, data) ==
  /\ i \in 1..Len(panelCalls)
  /\ panelCalls[i].op = "getIndexAdmin"
  /\ LET c == panelCalls[i]
         p1 == [panel EXCEPT !.indexData = data]
         p2 == IF data # NULL
               THEN [p1 EXCEPT !.formData = IndexFields, !.editingId = data]
               ELSE p1
     IN /\ panel' = afterFetchEntries([p2 EXCEPT !.entries = << >>, !.loading = FALSE],
                                      c.caller, c.activeTab)
        /\ panelCalls' = without(panelCalls, i)
        /\ lastPanel' = PanelEvent(c.fn, c.op, << >>, "none", "none")
  /\ UNCHANGED <<ls, now, inflight, last, session>>

\* fetchEntries after `await getPhotosAdmin()`
fetchEntriesPhotosResolve(i, data) ==
  /\ i \in 1..Len(panelCalls)
  /\ panelCalls[i].op = "getPhotosAdmin"
  /\ LET c == panelCalls[i]
     IN /\ panel' = afterFetchEntries([panel EXCEPT !.entries = data, !.indexData = NULL,
                                                    !.loading = FALSE],
                                      c.caller, c.activeTab)
        /\ panelCalls' = without(panelCalls, i)
        /\ lastPanel' = PanelEvent(c.fn, c.op, << >>, "none", "none")
  /\ UNCHANGED <<ls, now, inflight, last, session>>

\* the catch block of fetchEntries
fetchEntriesCatch(p, message) ==
  IF message = CONTENTFUL_TOKEN_MISSING \/ (message # << >> /\ includesToken(message))
  THEN [p EXCEPT !.showTokenModal = TRUE]
  ELSE [p EXCEPT !.error = IF message # << >> THEN message ELSE << "Failed to fetch entries" >>]

\* the remote call of fetchEntries rejected: catch, finally, and the caller
\* continues, since fetchEntries itself resolves
fetchEntriesReject(i, message) ==
  /\ i \in 1..Len(panelCalls)
  /\ panelCalls[i].fn = "fetchEntries"
  /\ LET c == panelCalls[i]
     IN /\ panel' = afterFetchEntries([fetchEntriesCatch(panel, message) EXCEPT !.loading = FALSE],
                                      c.caller, c.activeTab)
        /\ panelCalls' = without(panelCalls, i)
        /\ lastPanel' = PanelEvent(c.fn, c.op, message, "none", "none")
  /\ UNCHANGED <<ls, now, inflight, last, session>>

\* the write call of handleAdd, handleUpdate or handleDelete resolved:
\* `await fetchEntries()` on the closure's activeTab
writeResolve(i, has) ==
  /\ i \in 1..Len(panelCalls)
  /\ panelCalls[i].fn \in { "handleAdd", "handleUpdate", "handleDelete" }
  /\ LET c == panelCalls[i]
     IN fetchEntries(panel, c.activeTab, c.fn, without(panelCalls, i), has,
                     PanelEvent(c.fn, c.op, << >>, "none", "none"))
  /\ UNCHANGED <<ls, now, inflight, last, session>>

\* variant: the failure of a write is not shown
writeCatchSilent(p, fn, message) ==
  IF message = CONTENTFUL_TOKEN_MISSING
  THEN [p EXCEPT !.showTokenModal = TRUE]
  ELSE p

\* variant: a missing token goes to the banner as any other error
writeCatchBanner(p, fn, message) ==
  [p EXCEPT !.error =
     (CASE fn = "handleAdd" -> << "Failed to create: " >>
        [] fn = "handleUpdate" -> << "Failed to update: " >>
        [] fn = "handleDelete" -> << "Failed to delete: " >>
        [] OTHER -> << "Failed to upload image: " >>) \o message]

\* the catch blocks of handleAdd, handleUpdate, handleDelete and
\* handleImageUpload
writeCatch(p, fn, message) ==
  IF message = CONTENTFUL_TOKEN_MISSING
  THEN [p EXCEPT !.showTokenModal = TRUE]
  ELSE [p EXCEPT !.error =
          (CASE fn = "handleAdd" -> << "Failed to create: " >>
             [] fn = "handleUpdate" -> << "Failed to update: " >>
             [] fn = "handleDelete" -> << "Failed to delete: " >>
             [] OTHER -> << "Failed to upload image: " >>) \o message]

\* the write call rejected: catch, then finally setSaving(false)
writeReject(i, message) ==
  /\ i \in 1..Len(panelCalls)
  /\ panelCalls[i].fn \in { "handleAdd", "handleUpdate", "handleDelete" }
  /\ LET c == panelCalls[i]
     IN /\ panel' = [writeCatch(panel, c.fn, message) EXCEPT !.saving = FALSE]
        /\ panelCalls' = without(panelCalls, i)
        /\ lastPanel' = PanelEvent(c.fn, c.op, message, "none", "none")
  /\ UNCHANGED <<ls, now, inflight, last, session>>

\* handleImageUpload after `await uploadAsset(file)`
handleImageUploadResolve(i) ==
  /\ i \in 1..Len(panelCalls)
  /\ panelCalls[i].fn = "handleImageUpload"
  /\ LET c == panelCalls[i]
     IN /\ panel' = [panel EXCEPT !.formData = @ \cup { c.arg }, !.uploadingImage = FALSE]
        /\ panelCalls' = without(panelCalls, i)
        /\ lastPanel' = PanelEvent(c.fn, c.op, << >>, "none", "none")
  /\ UNCHANGED <<ls, now, inflight, last, session>>

\* uploadAsset rejected: catch, then finally setUploadingImage(false)
handleImageUploadReject(i, message) ==
  /\ i \in 1..Len(panelCalls)
  /\ panelCalls[i].fn = "handleImageUpload"
  /\ LET c == panelCalls[i]
     IN /\ panel' = [writeCatch(panel, c.fn, message) EXCEPT !.uploadingImage = FALSE]
        /\ panelCalls' = without(panelCalls, i)
        /\ lastPanel' = PanelEvent(c.fn, c.op, message, "none", "none")
  /\ UNCHANGED <<ls, now, inflight, last, session>>

\* the content handlers of one mounted AdminPanel
NextPanel ==
  \/ \E has \in BOOLEAN : AdminPanelRender(has)
  \/ \E a \in PanelTabs, has \in BOOLEAN : setActiveTab(a, has)
  \/ \E has \in BOOLEAN : refresh(has)
  \/ \E has \in BOOLEAN : handleTokenSubmit(has)
  \/ dismissError
  \/ startAdd
  \/ \E id \in { "p1" } : startEdit(id)
  \/ cancelEdit
  \/ changeTitle
  \/ \E has \in BOOLEAN : handleAdd(has)
  \/ \E has \in BOOLEAN : handleUpdate(has)
  \/ \E id \in { "p1" }, has \in BOOLEAN : handleDelete(id, has)
  \/ \E fieldName \in { "imageAssetId", "profileImageAssetId" } : handleImageUpload(fieldName)
  \/ \E i \in 1..MaxPending, data \in IndexResults : fetchEntriesIndexResolve(i, data)
  \/ \E i \in 1..MaxPending, data \in PhotoResults : fetchEntriesPhotosResolve(i, data)
  \/ \E i \in 1..MaxPending, message \in RemoteErrors : fetchEntriesReject(i, message)
  \/ \E i \in 1..MaxPending, has \in BOOLEAN : writeResolve(i, has)
  \/ \E i \in 1..MaxPending, message \in WriteErrors : writeReject(i, message)
  \/ \E i \in 1..MaxPending : handleImageUploadResolve(i)
  \/ \E i \in 1..MaxPending, message \in WriteErrors : handleImageUploadReject(i, message)

SpecPanel == Init /\ [][NextPanel]_vars

----------------------------------------------------------------------------
(* The read operations of contentful.ts *)

\* a getter: the cache function it calls, its contentType, whether its
\* argument (an id, a slug) is the queryKey, and its maxAge in minutes
Getter(name, op, ct, keyed, maxAge) ==
  [name |-> name, op |-> op, ct |-> ct, keyed |-> keyed, maxAge |-> maxAge]

getProjects == Getter("getProjects", "fetchWithCache", <<"portfolio">>, FALSE, 5)

getProjectById == Getter("getProjectById", "fetchSingleWithCache", <<"portfolio">>, TRUE, 10)

getSiteProfile == Getter("getSiteProfile", "fetchSingleWithCache", <<"index">>, FALSE, 10)

getBlogPostBySlug == Getter("getBlogPostBySlug", "fetchSingleWithCache", <<"blogPost">>, TRUE, 10)

\* the ids and slugs handed to the keyed getters
EntryIds == { <<"1">> }

\* the time between two reads of a page: as long as the longest maxAge
ReadPause == 10

\* the getter g is called with the argument id up to `await client.get...`
getterStart(g, id, skipCache) ==
  readStart(g.op, g.ct, IF g.keyed THEN id ELSE <<>>, g.maxAge, skipCache)

\* the fetcher of a list getter awaits client.getEntries outside any try
\* block: it resolves with { items: response.items } ...
listFetcherResolve(c, items) == fetchWithCacheResolve(c, items)

\* ... and rejects with the error of the remote call
listFetcherReject(c, error) == fetchWithCacheReject(c, error)

\* the fetcher of a single-entity getter resolved with the entity, or with
\* null when the remote call found nothing
singleFetcherResolve(c, response) == fetchSingleWithCacheTry(c, response, NoError)

\* `catch { return null; }` of the fetcher of a single-entity getter: what
\* the fetcher resolves with when the remote call failed
singleFetcherCatch(error) == NULL

\* the remote call of a single-entity getter failed
singleFetcherReject(c, error) == fetchSingleWithCacheTry(c, singleFetcherCatch(error), error)

\* a page reads through the getters, again after a pause
NextGetters ==
  \/ Elapse(ReadPause)
  \/ \E g \in { getProjects, getProjectById, getSiteProfile },
        id \in EntryIds, skip \in BOOLEAN : getterStart(g, id, skip)
  \/ \E c \in Pending, r \in NetResults : listFetcherResolve(c, r)
  \/ \E c \in Pending, e \in Errors : listFetcherReject(c, e)
  \/ \E c \in Pending, r \in NetResults \cup {NULL} : singleFetcherResolve(c, r)
  \/ \E c \in Pending, e \in Errors : singleFetcherReject(c, e)

SpecGetters == Init /\ [][NextGetters]_vars

----------------------------------------------------------------------------
(* Both caches under content types of which one ends in '_' and a query key *)

\* 'photo' and 'photo_1': contentType is any string the caller hands in
SuffixedTypes == { <<"photo">>, <<"photo", "_", "1">> }

\* the pairs (contentType, queryKey) in use
Pairs == { <<ct, qk>> : ct \in SuffixedTypes, qk \in QueryKeys } \ { <<<<"photo", "_", "1">>, <<"1">>>> }

NextKeys ==
  \/ \E p \in Pairs : fetchWithCacheStart(p[1], p[2], 1, FALSE)
  \/ \E c \in Pending : fetchWithCacheResolve(c, "r1")
  \/ \E p \in Pairs : clearContentfulCache(p[1], p[2])
  \/ \E p \in Pairs : fetchWithMgmtCacheStart(p[1], p[2], FALSE)
  \/ \E c \in Pending : fetchWithMgmtCacheResolve(c, "r1")
  \/ \E p \in Pairs : clearMgmtCache(p[1], p[2])
  \/ \E ct \in SuffixedTypes : invalidateMgmtCache(ct)

SpecKeys == Init /\ [][NextKeys]_vars

----------------------------------------------------------------------------
(* The reads of both caches when localStorage.setItem may throw *)

\* the setItem call of setCachedData that throws (the quota is exceeded):
\* none, the one of the data key, or the one of the timestamp key
SetItemFailures == { "none", "data", "timestamp" }

\* what setItem throws
QuotaExceededError == "QuotaExceededError"

\* the try block of the read cache's setCachedData: the store it leaves and
\* what it throws; the data key is written before the timestamp key
setCachedDataTry(s, contentType, data, queryKey, t, fail) ==
  CASE fail = "data" -> [store |-> s, thrown |-> QuotaExceededError]
    [] fail = "timestamp" ->
         [store |-> setItem(s, getCacheKey(contentType, queryKey), data),
          thrown |-> QuotaExceededError]
    [] OTHER -> [store |-> setCachedData(s, contentType, data, queryKey, t),
                 thrown |-> NoError]

\* variant: setCachedData has no catch block
setCachedDataCatchRethrow(written) == written

\* the catch block of the read cache's setCachedData: console.warn only
setCachedDataCatch(written) == [written EXCEPT !.thrown = NoError]

\* the try block of the management cache's setCachedData: one setItem call
mgmtSetCachedDataTry(s, contentType, data, queryKey, t, fail) ==
  IF fail = "none"
  THEN [store |-> mgmtSetCachedData(s, contentType, data, queryKey, t), thrown |-> NoError]
  ELSE [store |-> s, thrown |-> QuotaExceededError]

\* the catch block of the management cache's setCachedData: console.warn only
mgmtSetCachedDataCatch(written) == [written EXCEPT !.thrown = NoError]

\* the fetcher of fetchWithCache resolved; an error leaving setCachedData
\* would reach the catch block of fetchWithCache
fetchWithCacheResolveWrite(c, items, fail) ==
  /\ c \in Pending
  /\ c.op = "fetchWithCache"
  /\ LET written == setCachedDataCatch(setCachedDataTry(ls, c.ct, items, c.qk, now, fail))
     IN /\ ls' = written.store
        /\ last' = IF written.thrown = NoError
                   THEN Ended(c, Return("fetched", items), items, NoError)
                   ELSE Ended(c, fetchWithCacheCatch(getCachedData(written.store, c.ct, c.qk),
                                                     written.thrown),
                              items, NoError)
  /\ inflight' = Settle(c)
  /\ UNCHANGED <<now, session, content>>

\* the fetcher of fetchSingleWithCache resolved; a falsy response returns
\* before setCachedData
fetchSingleWithCacheResolveWrite(c, response, fail) ==
  /\ c \in Pending
  /\ c.op = "fetchSingleWithCache"
  /\ IF response = NULL
     THEN /\ fail = "none"
          /\ ls' = ls
          /\ last' = Ended(c, Return("null", NULL), response, NoError)
     ELSE LET written == setCachedDataCatch(setCachedDataTry(ls, c.ct, response, c.qk, now, fail))
          IN /\ ls' = written.store
             /\ last' = IF written.thrown = NoError
                        THEN Ended(c, Return("fetched", response), response, NoError)
                        ELSE Ended(c, fetchSingleWithCacheCatch(
                                        getCachedData(written.store, c.ct, c.qk),
                                        written.thrown),
                                   response, NoError)
  /\ inflight' = Settle(c)
  /\ UNCHANGED <<now, session, content>>

\* the fetcher of fetchWithMgmtCache resolved; setCachedData is not called
\* inside a try block of fetchWithMgmtCache
fetchWithMgmtCacheResolveWrite(c, data, fail) ==
  /\ c \in Pending
  /\ c.op = "fetchWithMgmtCache"
  /\ LET written == mgmtSetCachedDataCatch(mgmtSetCachedDataTry(ls, c.ct, data, c.qk, now, fail))
     IN /\ ls' = written.store
        /\ last' = IF written.thrown = NoError
                   THEN Ended(c, Return("fetched", data), data, NoError)
                   ELSE Ended(c, Throw(written.thrown), data, NoError)
  /\ inflight' = Settle(c)
  /\ UNCHANGED <<now, session, content>>

\* the three reads over a store whose writes may fail; skipCache lets a read
\* fetch again while the entry is fresh
NextWriteFails ==
  \/ \E ct \in ContentTypes, qk \in QueryKeys, skip \in BOOLEAN :
       fetchWithCacheStart(ct, qk, 1, skip)
  \/ \E c \in Pending, r \in NetResults, fail \in SetItemFailures :
       fetchWithCacheResolveWrite(c, r, fail)
  \/ \E ct \in ContentTypes, skip \in BOOLEAN :
       fetchSingleWithCacheStart(ct, <<"1">>, 1, skip)
  \/ \E c \in Pending, r \in NetResults \cup {NULL}, fail \in SetItemFailures :
       fetchSingleWithCacheResolveWrite(c, r, fail)
  \/ \E ct \in ContentTypes, skip \in BOOLEAN :
       fetchWithMgmtCacheStart(ct, <<>>, skip)
  \/ \E c \in Pending, r \in NetResults, fail \in { "none", "data" } :
       fetchWithMgmtCacheResolveWrite(c, r, fail)

SpecWriteFails == Init /\ [][NextWriteFails]_vars

----------------------------------------------------------------------------
(* fetchWithMgmtCache under fetchers that may resolve with null *)

NextMgmtRead ==
  \/ Tick
  \/ \E ct \in ContentTypes, qk \in QueryKeys, skip \in BOOLEAN :
       fetchWithMgmtCacheStart(ct, qk, skip)
  \/ \E c \in Pending, r \in NetResults \cup {NULL} : fetchWithMgmtCacheResolve(c, r)
  \/ \E c \in Pending, e \in Errors : fetchWithMgmtCacheReject(c, e)

SpecMgmtRead == Init /\ [][NextMgmtRead]_vars

----------------------------------------------------------------------------
(* Reads of the management cache while updates await their updaters *)

NextOptimistic ==
  \/ \E ct \in ContentTypes, qk \in QueryKeys, skip \in BOOLEAN :
       fetchWithMgmtCacheStart(ct, qk, skip)
  \/ \E c \in Pending, r \in NetResults : fetchWithMgmtCacheResolve(c, r)
  \/ \E ct \in ContentTypes, qk \in QueryKeys, o \in OptimisticValues :
       optimisticUpdateStart(ct, o, qk)
  \/ \E c \in Pending, r \in NetResults : optimisticUpdateResolve(c, r)
  \/ \E c \in Pending, e \in Errors : optimisticUpdateReject(c, e)

SpecOptimistic == Init /\ [][NextOptimistic]_vars

----------------------------------------------------------------------------
(* Forced refreshes of both caches *)

NextSkip ==
  \/ Tick
  \/ \E skip \in BOOLEAN : fetchWithCacheStart(<<"photo">>, <<>>, 1, skip)
  \/ \E c \in Pending, r \in NetResults : fetchWithCacheResolve(c, r)
  \/ \E skip \in BOOLEAN : fetchSingleWithCacheStart(<<"index">>, <<>>, 1, skip)
  \/ \E c \in Pending, r \in NetResults \cup {NULL} : fetchSingleWithCacheResolve(c, r)
  \/ \E skip \in BOOLEAN : fetchWithMgmtCacheStart(<<"photo">>, <<>>, skip)
  \/ \E c \in Pending, r \in NetResults : fetchWithMgmtCacheResolve(c, r)

SpecSkip == Init /\ [][NextSkip]_vars

----------------------------------------------------------------------------
(* Properties of the read cache (SpecRead) *)

\* a step of a handler: every handler leaves the clock alone and records
\* its event in last; only Tick moves the clock
HandlerStep == now' = now

InFlightCount(f) == BagCardinality(f)

ReadOps == { "fetchWithCache", "fetchSingleWithCache" }

\* C1: fetchWithCache and fetchSingleWithCache with skipCache=false return the
\* cached data without invoking the fetcher when the entry of (contentType,
\* queryKey) is younger than maxAge; with no entry, or one whose age is at
\* least maxAge, they invoke the fetcher exactly once, and when it resolves
\* with a result that result is stored under the current time and returned.
C1_FreshHitElseFetchOnce ==
  [][ (HandlerStep /\ last'.op \in ReadOps) =>
        LET e == getCachedData(ls, last'.ct, last'.qk)
            e2 == getCachedData(ls', last'.ct, last'.qk)
        IN /\ (last'.outcome \in {"hit", "pending"} /\ ~last'.skip) =>
                IF e.present /\ now - e.timestamp < last'.maxAge
                THEN /\ last'.outcome = "hit"
                     /\ last'.data = e.data
                     /\ last'.fetches = 0
                     /\ inflight' = inflight
                     /\ ls' = ls
                ELSE /\ last'.outcome = "pending"
                     /\ last'.fetches = 1
                     /\ InFlightCount(inflight') = InFlightCount(inflight) + 1
                     /\ ls' = ls
           /\ (last'.outcome \notin {"hit", "pending"}) =>
                /\ last'.fetches = 1
                /\ InFlightCount(inflight') = InFlightCount(inflight) - 1
           /\ (last'.outcome \notin {"hit", "pending"} /\ last'.resolved # NULL) =>
                /\ last'.outcome = "fetched"
                /\ last'.data = last'.resolved
                /\ e2 = [present |-> TRUE, data |-> last'.resolved, timestamp |-> now']
    ]_vars

\* a hit on an entry that is one minute old under maxAge = 2, while the
\* entry of the key still stands as it was read
C1_Witness ==
  /\ last.op \in ReadOps
  /\ last.outcome = "hit"
  /\ ~last.skip
  /\ last.maxAge = 2
  /\ getCachedData(ls, last.ct, last.qk).present
  /\ now - getCachedData(ls, last.ct, last.qk).timestamp = 1
  /\ last.data = getCachedData(ls, last.ct, last.qk).data

\* C2: when the fetcher throws inside fetchWithCache and the key has an entry,
\* of any age, the call returns that entry's data instead of rejecting, and
\* the entry (data and timestamp) and the rest of the storage are unchanged.
C2_StaleFallbackKeepsEntry ==
  [][ (HandlerStep /\ last'.op = "fetchWithCache" /\ last'.thrown # NoError
         /\ getCachedData(ls, last'.ct, last'.qk).present) =>
        /\ last'.outcome = "stale"
        /\ last'.err = NoError
        /\ last'.data = getCachedData(ls, last'.ct, last'.qk).data
        /\ ls' = ls
    ]_vars

\* the fallback served an entry that is expired under every maxAge in use
C2_Witness ==
  /\ last.op = "fetchWithCache"
  /\ last.outcome = "stale"
  /\ last.thrown # NoError
  /\ getCachedData(ls, last.ct, last.qk).present
  /\ \A m \in MaxAges : now - getCachedData(ls, last.ct, last.qk).timestamp >= m
  /\ last.data = getCachedData(ls, last.ct, last.qk).data

\* C3: when the fetcher throws inside fetchWithCache and the key has no entry,
\* the call rejects with the fetcher's own error and no entry is created.
C3_NoEntryRethrows ==
  [][ (HandlerStep /\ last'.op = "fetchWithCache" /\ last'.thrown # NoError
         /\ ~getCachedData(ls, last'.ct, last'.qk).present) =>
        /\ last'.outcome = "rejected"
        /\ last'.err = last'.thrown
        /\ ls' = ls
        /\ ~getCachedData(ls', last'.ct, last'.qk).present
    ]_vars

C3_Witness ==
  /\ last.op = "fetchWithCache"
  /\ last.outcome = "rejected"
  /\ last.err \in Errors
  /\ last.err = last.thrown
  /\ ~hasItem(ls, getCacheKey(last.ct, last.qk))

\* C4: fetchSingleWithCache never rejects; when its fetcher throws or resolves
\* with nothing found and the key has no entry, the call resolves to null.
C4_SingleNeverRejects ==
  [][ (HandlerStep /\ last'.op = "fetchSingleWithCache") =>
        /\ last'.outcome # "rejected"
        /\ last'.err = NoError
        /\ (/\ last'.outcome \notin {"hit", "pending"}
            /\ (last'.thrown # NoError \/ last'.resolved = NULL)
            /\ ~getCachedData(ls, last'.ct, last'.qk).present) =>
             (last'.outcome = "null" /\ last'.data = NULL)
    ]_vars

\* the fetcher threw, the key had no entry, the call resolved to null
C4_Witness ==
  /\ last.op = "fetchSingleWithCache"
  /\ last.outcome = "null"
  /\ last.thrown \in Errors
  /\ ~getCachedData(ls, last.ct, last.qk).present

----------------------------------------------------------------------------
(* Properties of the management cache (SpecMgmt, SpecInvalidate) *)

MgmtKeyOf(e) == mgmtGetCacheKey(e.ct, e.qk)

MgmtListKeyOf(e) == mgmtGetCacheKey(e.ct, <<>>)

\* C5: for every contentType and every queryKey, the empty one included, once
\* optimisticUpdate has completed with its updater succeeding, the entry of
\* (contentType, queryKey) holds the updater's result.
C5_ResultCachedForEveryQueryKey ==
  (last.op = "optimisticUpdate" /\ last.outcome = "fetched") =>
     /\ hasItem(ls, MgmtKeyOf(last))
     /\ ls[MgmtKeyOf(last)].data = last.resolved

\* C6: when the updater of optimisticUpdate throws, the call rejects with the
\* error the updater threw and the key has no entry afterwards.
C6_FailureDiscardsEntry ==
  (last.op = "optimisticUpdate" /\ last.thrown # NoError) =>
     /\ last.outcome = "rejected"
     /\ last.err = last.thrown
     /\ ~hasItem(ls, MgmtKeyOf(last))

C6_Witness ==
  /\ last.op = "optimisticUpdate"
  /\ last.outcome = "rejected"
  /\ last.err \in Errors
  /\ last.qk # <<>>
  /\ ~hasItem(ls, MgmtKeyOf(last))
  /\ hasItem(ls, MgmtListKeyOf(last))

\* an optimisticUpdate awaits its updater for the storage key k
UpdateInFlight(k) ==
  \E c \in Pending : c.op = "optimisticUpdate" /\ MgmtKeyOf(c) = k

\* C7: whenever no optimisticUpdate is in flight for a key, the entry of that
\* key is not an optimistic value, also when calls on the same key overlapped
\* and their updaters completed in any order, succeeding or failing.
C7_NoUnconfirmedWriteRetained ==
  \A k \in DOMAIN ls :
     (startsWith(k, MGMT_CACHE_PREFIX) /\ ~UpdateInFlight(k)) =>
        ls[k].data \notin OptimisticValues

\* two updates of one key overlapped, both have ended, the later one failed
C7_Witness ==
  /\ last.op = "optimisticUpdate"
  /\ last.overlap
  /\ last.outcome = "rejected"
  /\ InFlightCount(inflight) = 0
  /\ ~hasItem(ls, MgmtKeyOf(last))

\* C8: after optimisticUpdate completes with its updater succeeding, the list
\* entry of the content type (empty queryKey) does not exist, and the next
\* fetchWithMgmtCache for the list invokes its fetcher.
C8_SuccessClearsListEntry ==
  /\ []((last.op = "optimisticUpdate" /\ last.outcome = "fetched") =>
           ~hasItem(ls, MgmtListKeyOf(last)))
  /\ [][ (/\ last.op = "optimisticUpdate" /\ last.outcome = "fetched"
          /\ HandlerStep
          /\ last'.op = "fetchWithMgmtCache"
          /\ last'.ct = last.ct /\ last'.qk = <<>>
          /\ last'.outcome \in {"hit", "pending"}) =>
            /\ last'.outcome = "pending"
            /\ last'.fetches = 1
            /\ InFlightCount(inflight') = InFlightCount(inflight) + 1
       ]_vars

\* an update of (contentType, "1") succeeded while an update of the list of
\* the same content type, which had cached its optimistic value, still awaits
C8_Witness ==
  /\ last.op = "optimisticUpdate"
  /\ last.outcome = "fetched"
  /\ last.qk # <<>>
  /\ hasItem(ls, MgmtKeyOf(last))
  /\ ~hasItem(ls, MgmtListKeyOf(last))
  /\ \E c \in Pending : /\ c.op = "optimisticUpdate"
                        /\ c.ct = last.ct
                        /\ c.qk = <<>>

\* C9: when the fetcher of fetchWithMgmtCache throws and the key has an entry,
\* even an expired one, the call returns that entry; it rejects only when the
\* key has no entry.
C9_MgmtStaleFallback ==
  (last.op = "fetchWithMgmtCache" /\ last.thrown # NoError) =>
     IF hasItem(ls, MgmtKeyOf(last))
     THEN last.outcome = "stale" /\ last.data = ls[MgmtKeyOf(last)].data
     ELSE last.outcome = "rejected"

\* C10: after invalidateMgmtCache(contentType) neither cache holds a list
\* entry of the content type, and the next fetchWithMgmtCache(contentType)
\* and the next fetchWithCache of the content type without queryKey invoke
\* their fetchers.
C10_InvalidateClearsBothTiers ==
  /\ [](last.op = "invalidateMgmtCache" =>
          /\ ~hasItem(ls, MgmtListKeyOf(last))
          /\ ~getCachedData(ls, last.ct, <<>>).present)
  /\ [][ (/\ last.op = "invalidateMgmtCache"
          /\ HandlerStep
          /\ last'.op \in {"fetchWithMgmtCache", "fetchWithCache"}
          /\ last'.ct = last.ct /\ last'.qk = <<>>
          /\ last'.outcome \in {"hit", "pending"}) =>
            /\ last'.outcome = "pending"
            /\ last'.fetches = 1
            /\ InFlightCount(inflight') = InFlightCount(inflight) + 1
       ]_vars

\* the invalidation ran on a read cache that still holds a fresh entry of the
\* same content type under a queryKey, and no list entry is left in either tier
C10_Witness ==
  /\ last.op = "invalidateMgmtCache"
  /\ \E qk \in QueryKeys :
       /\ qk # <<>>
       /\ getCachedData(ls, last.ct, qk).present
       /\ now - getCachedData(ls, last.ct, qk).timestamp < 1
  /\ ~hasItem(ls, MgmtListKeyOf(last))
  /\ ~hasItem(ls, getCacheKey(last.ct, <<>>))
  /\ ~hasItem(ls, getTimestampKey(last.ct, <<>>))

----------------------------------------------------------------------------
(* Properties of the global invalidations (SpecClear) *)

MgmtKeys(s) == { k \in DOMAIN s : SubSeq(k, 1, 1) = <<"cf_mgmt_">> }

ReadCacheKeys(s) ==
  { k \in DOMAIN s : SubSeq(k, 1, 1) \in { <<"cf_cache_">>, <<"cf_etag_">>, <<"cf_ts_">> } }

\* C11: clearAllMgmtCache removes every key that starts with the management
\* prefix, however many there are, and leaves every other key (read-cache
\* keys, the session token key) with its value.
C11_ClearAllMgmtFrame ==
  /\ [](last.op = "clearAllMgmtCache" => MgmtKeys(ls) = {})
  /\ [][ (last'.op = "clearAllMgmtCache" /\ last' # last) =>
           /\ DOMAIN ls' = (DOMAIN ls) \ MgmtKeys(ls)
           /\ \A k \in DOMAIN ls' : ls'[k] = ls[k]
           /\ last'.removed = Cardinality(MgmtKeys(ls))
       ]_vars

\* clearAllMgmtCache removed two management entries from a store that keeps
\* a read-cache entry and the session token
C11_Witness ==
  /\ last.op = "clearAllMgmtCache"
  /\ last.removed >= 2
  /\ MgmtKeys(ls) = {}
  /\ \E ct \in ContentTypes, qk \in QueryKeys :
       hasItem(ls, getCacheKey(ct, qk)) /\ hasItem(ls, getTimestampKey(ct, qk))
  /\ hasItem(ls, <<"_as_t">>)

\* C12: clearAllContentfulCache removes every data, timestamp and etag key of
\* the read cache, so no (contentType, queryKey) has an entry to serve or to
\* fall back on and the next fetchWithCache call invokes its fetcher; the
\* management entries and the session token key keep their values.
C12_ClearAllReadFrame ==
  /\ [](last.op = "clearAllContentfulCache" =>
          /\ ReadCacheKeys(ls) = {}
          /\ \A ct \in ContentTypes, qk \in QueryKeys : ~getCachedData(ls, ct, qk).present)
  /\ [][ (last'.op = "clearAllContentfulCache" /\ last' # last) =>
           /\ DOMAIN ls' = (DOMAIN ls) \ ReadCacheKeys(ls)
           /\ \A k \in DOMAIN ls' : ls'[k] = ls[k]
           /\ last'.removed = Cardinality(ReadCacheKeys(ls))
       ]_vars
  /\ [][ (/\ last.op = "clearAllContentfulCache"
          /\ last'.op = "fetchWithCache"
          /\ last'.outcome \in {"hit", "pending"}) =>
            /\ last'.outcome = "pending"
            /\ last'.fetches = 1
            /\ InFlightCount(inflight') = InFlightCount(inflight) + 1
       ]_vars

\* clearAllContentfulCache removed the entries of two query keys from a store
\* that keeps a management entry and the session token
C12_Witness ==
  /\ last.op = "clearAllContentfulCache"
  /\ last.removed >= 4
  /\ ReadCacheKeys(ls) = {}
  /\ MgmtKeys(ls) # {}
  /\ hasItem(ls, <<"_as_t">>)

----------------------------------------------------------------------------
(* Properties of the session layer (SpecLogin, SpecTabs, SpecTamper) *)

\* a session handler ran in this step and recorded a new event
AuthStep == lastAuth' # lastAuth

CheckAuthOps == { "App.checkAuth", "AdminPanel.checkAuth" }

TokenStored(s) == <<"_as_t">> \in DOMAIN s

\* the application wrote a token in this step
TokenWritten ==
  /\ TokenStored(ls')
  /\ TokenStored(ls) => ls'[<<"_as_t">>] # ls[<<"_as_t">>]

\* a completeLogin of tab t awaits generateAuthToken
Completing(calls, t) == \E c \in calls : c.tab = t /\ c.op = "generateAuthToken"

\* C13: a token is stored, onLoginSuccess is called and the tab shows the
\* admin panel instead of the login screen only when the mounted login screen
\* has seen the submitted password's hash match and, with TOTP enabled, a
\* submitted code accepted; an attempt whose check fails stores nothing,
\* starts no completeLogin and leaves the login screen shown.
C13_LoginOnlyAfterChecks ==
  [][ \A t \in Tabs :
        /\ ( \/ LoginScreenShown(tabs[t]) /\ AdminPanelShown(tabs'[t])
             \/ AuthStep /\ lastAuth'.tab = t /\ lastAuth'.loginSuccess
             \/ AuthStep /\ lastAuth'.tab = t /\ TokenWritten ) =>
             /\ "password" \in tabs[t].passed
             /\ env.VITE_TOTP_SECRET # "" => "totp" \in tabs[t].passed
        /\ ( /\ AuthStep /\ lastAuth'.tab = t
             /\ lastAuth'.op \in {"handleLoginSubmit.password", "handleLoginSubmit.totp"}
             /\ lastAuth'.verdict = "false" ) =>
             /\ ls' = ls
             /\ ~Completing(authCalls', t)
             /\ LoginScreenShown(tabs'[t])
    ]_vars

\* with TOTP enabled a login completed: the token is stored and the admin
\* panel is shown
C13_Witness ==
  /\ env.VITE_TOTP_SECRET # ""
  /\ lastAuth.op = "completeLogin"
  /\ lastAuth.loginSuccess
  /\ TokenStored(ls)
  /\ ls[<<"_as_t">>] = lastAuth.arg
  /\ AdminPanelShown(tabs[lastAuth.tab])

\* C14: when checkAuth of App (at start) or of AdminPanel (at mount) finds
\* no token or an invalid one, the token key is removed and the tab shows
\* the login screen; a tab leaves its start-up check for the admin panel
\* only through a checkAuth of App whose token validated.
C14_FailedValidationLogsOut ==
  [][ /\ ( /\ AuthStep
           /\ lastAuth'.op \in CheckAuthOps
           /\ lastAuth'.verdict \in {"invalid", "no token"} \/ lastAuth'.logout ) =>
           /\ ~TokenStored(ls')
           /\ LoginScreenShown(tabs'[lastAuth'.tab])
      /\ \A t \in Tabs :
           (tabs[t].open /\ tabs[t].isChecking /\ AdminPanelShown(tabs'[t])) =>
             /\ lastAuth'.tab = t
             /\ lastAuth'.op = "App.checkAuth"
             /\ lastAuth'.verdict = "valid"
    ]_vars

\* App's checkAuth found the stored token invalid: the key is gone and the
\* login screen is shown
C14_Witness ==
  /\ lastAuth.op = "App.checkAuth"
  /\ lastAuth.verdict = "invalid"
  /\ lastAuth.at = now
  /\ ~TokenStored(ls)
  /\ LoginScreenShown(tabs[lastAuth.tab])

\* C15: when a tab logs out while another tab shows the admin panel, that
\* other tab eventually stops showing it; and whenever the null storage event
\* of the token key is delivered to a tab that shows the admin panel, its
\* logout callback is called and it shows the login screen.
C15_CrossTabLogout ==
  /\ \A t \in Tabs :
       ( /\ lastAuth.op = "AdminPanel.handleLogout"
         /\ lastAuth.tab # t
         /\ AdminPanelShown(tabs[t]) ) ~> ~AdminPanelShown(tabs[t])
  /\ [][ \A t \in Tabs :
           ( /\ AuthStep
             /\ lastAuth'.op = "handleStorageChange" /\ lastAuth'.tab = t
             /\ AdminPanelShown(tabs[t])
             /\ Head(storageEvents[t]).key = <<"_as_t">>
             /\ Head(storageEvents[t]).removed ) =>
             /\ lastAuth'.logout
             /\ LoginScreenShown(tabs'[t])
       ]_vars

\* the storage event of another tab's logout was delivered to a tab that
\* showed the admin panel: its logout callback ran
C15_Witness ==
  /\ lastAuth.op = "handleStorageChange"
  /\ lastAuth.logout
  /\ LoginScreenShown(tabs[lastAuth.tab])
  /\ \E t \in Tabs : t # lastAuth.tab /\ ~tabs[t].open
  /\ ~TokenStored(ls)

\* the issuedAt of a stored token
issuedAtOf(token) == token[1].n

\* the stored token is older than its lifetime
TokenExpired ==
  TokenStored(ls) /\ now - issuedAtOf(ls[<<"_as_t">>]) > TOKEN_TTL

\* C16: once the stored token is more than 15 minutes old, a tab that shows
\* the admin panel eventually stops showing it, without a reload.
C16_ExpiryEndsSession ==
  \A t \in Tabs : (AdminPanelShown(tabs[t]) /\ TokenExpired) ~> ~AdminPanelShown(tabs[t])

\* C17: a tab that shows the admin panel and whose user has been inactive
\* for more than 30 minutes eventually stops showing it.
C17_InactiveSessionLoggedOut ==
  \A t \in Tabs :
    (AdminPanelShown(tabs[t]) /\ now - tabs[t].lastActivity > INACTIVITY_LIMIT)
      ~> ~AdminPanelShown(tabs[t])

\* C18: a checkAuth that validates a token generated for the configured
\* password hash finds it valid in the minute of its issuance and invalid at
\* every time more than 15 minutes after it.
C18_FreshValidExpiredInvalid ==
  \A issuedAt \in 0..MaxSessionTime, nonce \in Nonces :
    ( /\ lastAuth.op \in CheckAuthOps
      /\ lastAuth.verdict \in {"valid", "invalid"}
      /\ lastAuth.arg = generateAuthToken(env.VITE_ADMIN_PASSWORD_HASH, issuedAt, nonce) ) =>
      /\ lastAuth.at = issuedAt => lastAuth.verdict = "valid"
      /\ lastAuth.at > issuedAt + TOKEN_TTL => lastAuth.verdict = "invalid"

\* App's checkAuth, in the minute a token was issued, found it valid
C18_Witness ==
  /\ lastAuth.op = "App.checkAuth"
  /\ lastAuth.verdict = "valid"
  /\ lastAuth.arg = generateAuthToken(env.VITE_ADMIN_PASSWORD_HASH, lastAuth.at, "n1")

\* C19: a checkAuth over the empty string, a text with the wrong number of
\* fields, a token with an altered signature or timestamp, or a token signed
\* from another password hash returns (the start-up check ends), finds the
\* token invalid, removes the key and leaves the tab without the admin panel.
C19_TamperedTokenRejected ==
  [][ ( /\ AuthStep
        /\ lastAuth'.op \in CheckAuthOps
        /\ lastAuth'.arg \in TamperedTokens ) =>
        /\ lastAuth'.verdict \in {"invalid", "no token"}
        /\ ~tabs'[lastAuth'.tab].isChecking
        /\ ~AdminPanelShown(tabs'[lastAuth'.tab])
        /\ ~TokenStored(ls')
    ]_vars

\* AdminPanel's checkAuth rejected a token signed from another password hash
C19_Witness ==
  /\ lastAuth.op = "AdminPanel.checkAuth"
  /\ lastAuth.verdict = "invalid"
  /\ lastAuth.logout
  /\ lastAuth.arg = generateAuthToken(Hex(<<Text("bad")>>, "upper"), MaxSessionTime, "n1")
  /\ LoginScreenShown(tabs[lastAuth.tab])

\* C20: at time-step t the code of the configured secret for step t-1, t or
\* t+1 is accepted and the login goes on to completeLogin; the code for step
\* t-2 or t+2 is rejected with 'Invalid authentication code'.
C20_TotpWindow ==
  [][ (AuthStep /\ lastAuth'.op = "handleLoginSubmit.totp") =>
        LET t == (lastAuth'.at * 60) \div 30
            tab == lastAuth'.tab
            codeOf(step) == <<Sym("hotp6", step, env.VITE_TOTP_SECRET, NoHex, <<>>)>>
        IN /\ (\E d \in {-1, 0, 1} : lastAuth'.arg = codeOf(t + d)) =>
                /\ lastAuth'.verdict = "true"
                /\ Completing(authCalls', tab)
           /\ (\E d \in {-2, 2} : lastAuth'.arg = codeOf(t + d)) =>
                /\ lastAuth'.verdict = "false"
                /\ ~Completing(authCalls', tab)
                /\ tabs'[tab].passwordError = "Invalid authentication code"
    ]_vars

\* the code of the following time-step was accepted
C20_Witness ==
  /\ lastAuth.op = "handleLoginSubmit.totp"
  /\ lastAuth.verdict = "true"
  /\ lastAuth.arg = totpCode(env.VITE_TOTP_SECRET, timeStep(lastAuth.at) + 1)
  /\ Completing(authCalls, lastAuth.tab)

----------------------------------------------------------------------------
(* Properties of the read operations of contentful.ts (SpecGetters) *)

\* the remote call made for the call that ended failed
RemoteFailed(e) == e.thrown # NoError \/ e.remote # NoError

\* C21: when the remote call of a read operation of contentful.ts fails
\* while the key has an entry, of any age, the operation returns the data of
\* that entry: it neither rejects nor returns null.
C21_RemoteErrorServesStale ==
  [][ ( /\ last' # last
        /\ last'.op \in ReadOps
        /\ RemoteFailed(last')
        /\ getCachedData(ls, last'.ct, last'.qk).present ) =>
        /\ last'.outcome = "stale"
        /\ last'.data = getCachedData(ls, last'.ct, last'.qk).data
    ]_vars

----------------------------------------------------------------------------
(* Properties of overlapping calls (SpecInvalidate) *)

FetchOps == { "fetchWithCache", "fetchWithMgmtCache" }

\* the storage key of the entry that the call of event e reads and writes
EntryKeyOf(e) ==
  IF e.op = "fetchWithMgmtCache"
  THEN <<"cf_mgmt_">> \o keySuffix(e.ct, e.qk)
  ELSE <<"cf_cache_">> \o keySuffix(e.ct, e.qk)

\* how many calls of e's function await their fetcher for e's key
AwaitingLike(f, e) ==
  LET like == { c \in BagToSet(f) : c.op = e.op /\ EntryKeyOf(c) = EntryKeyOf(e) }
      RECURSIVE count(_)
      count(cs) == IF cs = {} THEN 0
                   ELSE LET c == CHOOSE x \in cs : TRUE
                        IN CopiesIn(c, f) + count(cs \ {c})
  IN count(like)

\* C22: a fetchWithCache or fetchWithMgmtCache call that misses while another
\* call of the same function for the same key awaits its fetcher invokes its
\* own fetcher and awaits it too; and every such call whose fetcher resolves
\* writes its result under the current time, so that after two overlapping
\* calls the entry holds the result of the one that completed last.
C22_OverlappingFetchesBothRun ==
  /\ [][ ( /\ HandlerStep
           /\ last'.op \in FetchOps
           /\ last'.outcome = "pending" ) =>
           /\ last'.fetches = 1
           /\ AwaitingLike(inflight', last') = AwaitingLike(inflight, last') + 1
       ]_vars
  /\ [][ ( /\ HandlerStep
           /\ last'.op \in FetchOps
           /\ last'.outcome = "fetched" ) =>
           /\ AwaitingLike(inflight', last') = AwaitingLike(inflight, last') - 1
           /\ hasItem(ls', EntryKeyOf(last'))
           /\ IF last'.op = "fetchWithMgmtCache"
              THEN ls'[EntryKeyOf(last')] = [data |-> last'.resolved, timestamp |-> now']
              ELSE /\ ls'[EntryKeyOf(last')] = last'.resolved
                   /\ ls'[<<"cf_ts_">> \o keySuffix(last'.ct, last'.qk)] = now'
       ]_vars

\* two fetchWithMgmtCache calls for one key overlapped and both have
\* completed: the entry holds the result of the call that started second and
\* completed last
C22_Witness ==
  /\ last.op = "fetchWithMgmtCache"
  /\ last.outcome = "fetched"
  /\ last.overlap
  /\ InFlightCount(inflight) = 0
  /\ hasItem(ls, EntryKeyOf(last))
  /\ last.resolved = "r1"
  /\ IF last.op = "fetchWithMgmtCache"
     THEN ls[EntryKeyOf(last)].data = "r1"
     ELSE ls[EntryKeyOf(last)] = "r1"

----------------------------------------------------------------------------
(* Properties of the management cache under writes (SpecMgmt) *)

\* C24: list data that a fetchWithMgmtCache call stored although a write of
\* its content type (a successful optimisticUpdate, an invalidateMgmtCache)
\* completed while the call was awaiting its fetcher, so that the data was
\* fetched before the write, is not served to the call that follows.
C24_NoListFromBeforeWrite ==
  [][ ( /\ HandlerStep
        /\ last.op = "fetchWithMgmtCache" /\ last.qk = <<>>
        /\ last.outcome = "fetched" /\ last.outdated
        /\ last'.op = "fetchWithMgmtCache" /\ last'.qk = <<>> /\ last'.ct = last.ct
        /\ last'.outcome = "hit" ) =>
        last'.data # last.resolved
    ]_vars

----------------------------------------------------------------------------
(* Properties of a not-found response (SpecRead) *)

\* C35: when the fetcher of fetchSingleWithCache resolves with a falsy
\* response, the call returns null and the store, with the data and the
\* timestamp of any entry of the key, stays as it was.
C35_NotFoundWritesNothing ==
  [][ ( /\ HandlerStep
        /\ last'.op = "fetchSingleWithCache"
        /\ last'.outcome # "pending"
        /\ last'.fetches = 1
        /\ last'.thrown = NoError
        /\ last'.resolved = NULL ) =>
        /\ last'.outcome = "null"
        /\ last'.data = NULL
        /\ ls' = ls
    ]_vars

\* a not-found response was handled while the key held an entry
C35_Witness ==
  /\ last.op = "fetchSingleWithCache"
  /\ last.fetches = 1
  /\ last.thrown = NoError
  /\ last.resolved = NULL
  /\ last.outcome = "null"
  /\ getCachedData(ls, last.ct, last.qk).present

----------------------------------------------------------------------------
(* Properties of failing cache writes (SpecWriteFails) *)

\* C36: whether or not localStorage.setItem throws, a read whose fetcher
\* resolved returns what the fetcher resolved with and rejects with nothing.
C36_WriteFailureNeverFailsRead ==
  [][ ( /\ HandlerStep
        /\ last'.op \in { "fetchWithCache", "fetchSingleWithCache", "fetchWithMgmtCache" }
        /\ last'.outcome \notin { "pending", "hit" }
        /\ last'.thrown = NoError ) =>
        /\ last'.outcome \in { "fetched", "null" }
        /\ last'.data = last'.resolved
        /\ last'.err = NoError
    ]_vars

\* a read returned the fetched data although its write left no entry: the
\* read cache holds the data key without the timestamp key
C36_Witness ==
  /\ last.op \in { "fetchWithCache", "fetchSingleWithCache" }
  /\ last.outcome = "fetched"
  /\ last.data \in NetResults
  /\ hasItem(ls, getCacheKey(last.ct, last.qk))
  /\ ls[getCacheKey(last.ct, last.qk)] = last.data
  /\ ~hasItem(ls, getTimestampKey(last.ct, last.qk))

----------------------------------------------------------------------------
(* Properties of the cache keys (SpecKeys) *)

\* the functions that store, refresh or clear the entry of one pair
PairOps ==
  { "fetchWithCache", "clearContentfulCache", "fetchWithMgmtCache", "clearMgmtCache" }

\* C25: a call that stores, refreshes or clears the entry of the pair
\* (contentType, queryKey) leaves what both caches read for every other pair
\* as it was.
C25_PairsAreIndependent ==
  [][ (HandlerStep /\ last'.op \in PairOps) =>
        \A p \in Pairs :
          (p # <<last'.ct, last'.qk>>) =>
            /\ getCachedData(ls', p[1], p[2]) = getCachedData(ls, p[1], p[2])
            /\ mgmtEntry(ls', p[1], p[2]) = mgmtEntry(ls, p[1], p[2])
    ]_vars

\* C34: invalidateMgmtCache(contentType) leaves what both caches read under
\* (contentType, non-empty queryKey) and under every other content type as it
\* was.
C34_InvalidateIsListLevel ==
  [][ (HandlerStep /\ last'.op = "invalidateMgmtCache") =>
        \A p \in Pairs :
          (p[1] # last'.ct \/ p[2] # << >>) =>
            /\ getCachedData(ls', p[1], p[2]) = getCachedData(ls, p[1], p[2])
            /\ mgmtEntry(ls', p[1], p[2]) = mgmtEntry(ls, p[1], p[2])
    ]_vars

----------------------------------------------------------------------------
(* Properties of fetchWithMgmtCache (SpecMgmtRead) *)

\* C26: fetchWithMgmtCache with skipCache=false returns the data of the
\* entry without invoking the fetcher when the key has an entry younger than
\* 2 minutes, whatever the call; with no entry, or one that is 2 minutes old
\* or older, it invokes the fetcher, and when the fetcher resolves the result
\* is stored under the current time.
C26_MgmtFreshHitElseFetch ==
  /\ [][ ( /\ HandlerStep
           /\ last'.op = "fetchWithMgmtCache"
           /\ last'.outcome \in {"hit", "pending"}
           /\ ~last'.skip ) =>
           LET e == mgmtEntry(ls, last'.ct, last'.qk)
           IN IF e.present /\ now - e.timestamp < 2
              THEN /\ last'.outcome = "hit"
                   /\ last'.data = e.data
                   /\ last'.fetches = 0
                   /\ inflight' = inflight
                   /\ ls' = ls
              ELSE /\ last'.outcome = "pending"
                   /\ last'.fetches = 1
                   /\ InFlightCount(inflight') = InFlightCount(inflight) + 1
                   /\ ls' = ls
       ]_vars
  /\ [][ ( /\ HandlerStep
           /\ last'.op = "fetchWithMgmtCache"
           /\ last'.outcome = "fetched" ) =>
           /\ last'.data = last'.resolved
           /\ mgmtEntry(ls', last'.ct, last'.qk)
                = [present |-> TRUE, data |-> last'.resolved, timestamp |-> now']
       ]_vars

----------------------------------------------------------------------------
(* Properties of reads during an update (SpecOptimistic) *)

\* C27: while an optimisticUpdate of (contentType, queryKey) awaits its
\* updater, a fetchWithMgmtCache call with skipCache=false for the same pair
\* returns the optimistic value and does not invoke its fetcher.
C27_OptimisticValueServed ==
  [][ ( /\ HandlerStep
        /\ last'.op = "fetchWithMgmtCache"
        /\ last'.outcome \in {"hit", "pending"}
        /\ ~last'.skip
        /\ \E c \in Pending : /\ c.op = "optimisticUpdate"
                              /\ c.ct = last'.ct
                              /\ c.qk = last'.qk ) =>
        /\ last'.outcome = "hit"
        /\ last'.data \in OptimisticValues
        /\ last'.fetches = 0
    ]_vars

----------------------------------------------------------------------------
(* Properties of forced refreshes (SpecSkip) *)

CacheFetchOps == { "fetchWithCache", "fetchSingleWithCache", "fetchWithMgmtCache" }

\* C28: with skipCache=true, fetchWithCache, fetchSingleWithCache and
\* fetchWithMgmtCache invoke the fetcher and change nothing before it
\* settles, whatever entry the key holds; and when the fetcher of such a call
\* resolves with a result, the entry of the key holds that result under the
\* current time.
C28_SkipCacheRefetches ==
  /\ [][ ( /\ HandlerStep
           /\ last'.op \in CacheFetchOps
           /\ last'.outcome \in {"hit", "pending"}
           /\ last'.skip ) =>
           /\ last'.outcome = "pending"
           /\ last'.fetches = 1
           /\ InFlightCount(inflight') = InFlightCount(inflight) + 1
           /\ ls' = ls
       ]_vars
  /\ [][ ( /\ HandlerStep
           /\ last'.op \in CacheFetchOps
           /\ last'.outcome \notin {"hit", "pending"}
           /\ last'.resolved # NULL ) =>
           /\ last'.outcome = "fetched"
           /\ last'.data = last'.resolved
           /\ IF last'.op = "fetchWithMgmtCache"
              THEN mgmtEntry(ls', last'.ct, last'.qk)
                     = [present |-> TRUE, data |-> last'.resolved, timestamp |-> now']
              ELSE getCachedData(ls', last'.ct, last'.qk)
                     = [present |-> TRUE, data |-> last'.resolved, timestamp |-> now']
       ]_vars

\* a call with skipCache=true awaits its fetcher although the key holds an
\* entry stored in this very minute
C28_Witness ==
  /\ now > 0
  /\ last.op \in CacheFetchOps
  /\ last.skip
  /\ last.outcome = "pending"
  /\ IF last.op = "fetchWithMgmtCache"
     THEN /\ mgmtEntry(ls, last.ct, last.qk).present
          /\ mgmtEntry(ls, last.ct, last.qk).timestamp = now
     ELSE /\ getCachedData(ls, last.ct, last.qk).present
          /\ getCachedData(ls, last.ct, last.qk).timestamp = now

----------------------------------------------------------------------------
(* Properties of AdminPanel's content handlers (SpecPanel) *)

\* a step of a content handler
PanelStep == content' # content

\* the remote calls that write
WriteCalls == { "createPhoto", "updateIndex", "updatePhoto", "deletePhoto", "uploadAsset" }

\* C23: without a management token fetchEntries makes no remote call and
\* opens the token prompt with the error banner unset; and when a remote call
\* of fetchEntries, handleImageUpload, handleAdd, handleUpdate or
\* handleDelete rejects with CONTENTFUL_TOKEN_MISSING, the handler opens the
\* token prompt and leaves the error banner as it was.
C23_MissingTokenOpensPrompt ==
  [][ PanelStep =>
        /\ lastPanel'.fetch = "no token" =>
             /\ lastPanel'.remote = "none"
             /\ Len(panelCalls') <= Len(panelCalls)
             /\ panel'.showTokenModal
             /\ panel'.error = << >>
        /\ lastPanel'.err = CONTENTFUL_TOKEN_MISSING =>
             /\ panel'.showTokenModal
             /\ panel'.error = panel.error ]_vars

\* createPhoto rejected for the missing token: the prompt is open, no banner
C23_Witness ==
  /\ lastPanel.settled = "createPhoto"
  /\ lastPanel.err = CONTENTFUL_TOKEN_MISSING
  /\ panel.showTokenModal
  /\ panel.error = << >>

\* message occurs in text
Contains(text, message) ==
  \E k \in 0..Len(text) - Len(message) :
     SubSeq(text, k + 1, k + Len(message)) = message

\* C29: when createPhoto, updateIndex, updatePhoto, deletePhoto or uploadAsset
\* rejects with an error other than the missing token, the error banner is
\* set to a message that contains the error's message, the saving flag (the
\* uploading flag for an upload) is false again, fetchEntries is not called,
\* and the entries, the form data and the editing state are left as they were.
C29_WriteFailureIsShown ==
  [][ ( /\ PanelStep
        /\ lastPanel'.settled \in WriteCalls
        /\ lastPanel'.err \notin { << >>, CONTENTFUL_TOKEN_MISSING } ) =>
        /\ panel'.error # << >>
        /\ Contains(panel'.error, lastPanel'.err)
        /\ IF lastPanel'.settled = "uploadAsset"
           THEN ~panel'.uploadingImage
           ELSE ~panel'.saving
        /\ lastPanel'.fetch = "none"
        /\ lastPanel'.remote = "none"
        /\ Len(panelCalls') < Len(panelCalls)
        /\ panel'.entries = panel.entries
        /\ panel'.indexData = panel.indexData
        /\ panel'.loading = panel.loading
        /\ panel'.formData = panel.formData
        /\ panel'.editingId = panel.editingId
        /\ panel'.isAdding = panel.isAdding ]_vars

\* updatePhoto failed: the banner carries the message, the photo is still
\* being edited
C29_Witness ==
  /\ lastPanel.settled = "updatePhoto"
  /\ lastPanel.err = << "Invalid ", "token" >>
  /\ panel.error = << "Failed to update: ", "Invalid ", "token" >>
  /\ panel.editingId = "p1"
  /\ "title" \in panel.formData
  /\ ~panel.saving
----------------------------------------------------------------------------
(* Properties of the storage listener (SpecListeners) *)

\* C30: a tab that shows AdminPanel has exactly one storage listener, also
\* after the effect has run again for a new onLogout; a tab that does not
\* show it has none; and a storage event delivered to a tab that does not
\* show AdminPanel logs nothing out.
C30_ListenerPairedWithMount ==
  /\ [](\A t \in Tabs :
          tabs[t].listeners = IF AdminPanelShown(tabs[t]) THEN 1 ELSE 0)
  /\ [][ ( /\ lastAuth' # lastAuth
           /\ lastAuth'.op = "handleStorageChange"
           /\ ~AdminPanelShown(tabs[lastAuth'.tab]) ) =>
           ~lastAuth'.logout ]_vars

\* the effect ran again in a tab that still shows AdminPanel with its one
\* listener, and the other tab shows the login screen and has none
C30_Witness ==
  /\ lastAuth.op = "App.render"
  /\ AdminPanelShown(tabs[lastAuth.tab])
  /\ tabs[lastAuth.tab].listeners = 1
  /\ \E u \in Tabs : u # lastAuth.tab /\ LoginScreenShown(tabs[u]) /\ tabs[u].listeners = 0
----------------------------------------------------------------------------
(* Properties of the login screen's verifying flag (SpecLoginFair) *)

\* C31: a login screen that shows the message of a rejected attempt while
\* verifying is set eventually has verifying cleared, so that the submit
\* button is enabled again.
C31_VerifyingCleared ==
  \A t \in Tabs :
    ( /\ LoginScreenShown(tabs[t])
      /\ tabs[t].passwordError \in { "Incorrect password", "Invalid authentication code" }
      /\ tabs[t].verifying ) ~> ~tabs[t].verifying
----------------------------------------------------------------------------
(* Properties of the cross-tab logout under a later login (SpecTabs) *)

\* C32: a storage listener that handles an event leaves the token in the
\* store as it is: the token present when a removal event is handled was
\* stored by a login that completed after the logout the event reports.
C32_StaleLogoutKeepsNewToken ==
  [][ ( /\ lastAuth' # lastAuth
        /\ lastAuth'.op = "handleStorageChange"
        /\ TokenStored(ls) ) =>
        /\ TokenStored(ls')
        /\ ls'[AUTH_TOKEN_KEY] = ls[AUTH_TOKEN_KEY] ]_vars
----------------------------------------------------------------------------
(* Properties of overlapping fetchEntries calls (SpecPanel) *)

\* the entries, index data, form data and editing id are those of the tab
BelongsToActiveTab(p) ==
  CASE p.activeTab = "photo" ->
         /\ p.indexData = NULL
         /\ p.editingId \notin IndexResults \ { NULL }
         /\ p.formData \cap IndexFields = {}
    [] p.activeTab = "index" ->
         /\ p.entries = << >>
         /\ p.editingId \notin entryIds(p)
         /\ p.formData \cap PhotoFields = {}
    [] OTHER ->
         /\ p.entries = << >>
         /\ p.indexData = NULL
         /\ p.editingId = NULL
         /\ p.formData = {}

\* C33: when a response of getIndexAdmin or getPhotosAdmin has just been
\* handled, no handler awaits a remote call any more and the token prompt is
\* closed, the entries, the index data, the form data and the editing id are
\* those of the active tab.
C33_StateBelongsToActiveTab ==
  ( /\ panel.mounted
    /\ ~panel.showTokenModal
    /\ panelCalls = << >>
    /\ lastPanel.settled \in { "getIndexAdmin", "getPhotosAdmin" }
    /\ lastPanel.err = << >> ) => BelongsToActiveTab(panel)

====
